---- MODULE Spec2Model ----
(***************************************************************************)
(* Kiosk check-in of husky-musher: which repeat instance of the Kiosk      *)
(* Registration form a participant is sent to, decided from the encounter  *)
(* events of the past week (lib/husky_musher/utils/redcap.py).             *)
(*                                                                         *)
(* The state is the REDCap encounter arm of one participant record, the    *)
(* study day, the configured project, and what the last check-in computed. *)
(***************************************************************************)
EXTENDS Integers, Sequences, FiniteSets, TLC

\* ------------------------------------------------------------------------
\* Bounds of the model
\* ------------------------------------------------------------------------
\* last study day
MaxDay == 2
\* most instrument fields filled in outside the check-in
MaxEntries == 3
\* most records the REDCap project comes to hold
MaxRecords == 2
\* largest max_retry_count a caller passes besides the default
MaxRetryCount == 2

\* ------------------------------------------------------------------------
\* Program constants
\* ------------------------------------------------------------------------
\* one_week_ago: get_todays_repeat_instance() - 7
WEEK == 7
\* PROJECT_ID of the production project
PROJECT_ID == 148
\* id of the TestingProject, for which no Testing Determination is written
TESTING_PROJECT_ID == -1
\* Python's None for an Optional[int] instance number (instances are >= 1)
None == -1
\* what an event can hold in place of an instance number: no key
\* 'redcap_repeat_instance' at all, the empty string, a text that is not a
\* number
MISSING == -2
BLANK == -3
NON_NUMERIC == -4
Malformed == {MISSING, BLANK, NON_NUMERIC}
\* the exceptions the marker extraction raises, in place of its result
KeyError == -5
ValueError == -6
Exceptions == {KeyError, ValueError}
\* raw REDCap code of a complete instrument
COMPLETE == "2"
\* the participant record that checks in
REDCAP_RECORD == [record_id |-> "-1"]

\* values REDCap exports for [testing_trigger]
TriggerValues == {"Yes", "No", ""}
\* values of an <instrument>_complete field: blank, Incomplete, Unverified,
\* Complete
StatusValues == {"", "0", "1", "2"}

Instances == 1..MaxDay

\* one repeat instance of the encounter arm, as exported by REDCap
Encounter == [redcap_repeat_instance : Instances,
              testing_trigger : TriggerValues,
              test_order_survey_complete : StatusValues,
              kiosk_registration_4c7f_complete : StatusValues]

VARIABLES
    today,              \* get_todays_repeat_instance()
    store,              \* encounter instances REDCap holds for the record
    project_id,         \* LazyObjects.get_project().id
    recent_encounters,  \* the window the last check-in fetched
    instances,          \* the markers the last check-in extracted
    resolution,         \* the branch the last check-in took and its instance
    created,            \* the last check-in posted a Testing Determination
    updated,            \* how many records REDCap answered that post updated
    link,               \* what the last check-in returned
    previous,           \* the check-in right before the last one, if any
    records,            \* enrollment records the REDCap project holds
    cache,              \* LazyObjects.get_cache(): NetID -> cached record
    requests,           \* the requests being served, one per worker
    api_call            \* the call to REDCap in progress, its posts and answers

participant_vars == <<records, cache, requests>>

transport_vars == <<api_call>>

checkin_vars == <<today, store, project_id, recent_encounters, instances,
                  resolution, created, updated, link, previous>>

vars == <<today, store, project_id, recent_encounters, instances,
          resolution, created, updated, link, previous, records, cache, requests,
          api_call>>

\* ------------------------------------------------------------------------
\* Pure functions of redcap.py
\* ------------------------------------------------------------------------

\* Python truthiness of an Optional[int]: `not x`
PyNot(x) == x = None \/ x = 0

\* a plausible slip: a week counted as eight days back
one_week_ago_eight_days(t) == t - (WEEK + 1)

one_week_ago(t) == t - WEEK

\* the JSON export of the encounter arm, in instance order
RECURSIVE ExportFrom(_, _)
ExportFrom(st, i) ==
    IF \A e \in st : e.redcap_repeat_instance < i THEN <<>>
    ELSE LET here == {e \in st : e.redcap_repeat_instance = i}
         IN  (IF here = {} THEN <<>> ELSE <<CHOOSE e \in here : TRUE>>)
             \o ExportFrom(st, i + 1)

fetch_encounter_events_past_week(st, t) ==
    LET encounters == ExportFrom(st, 1)
        InWeek(e) == e.redcap_repeat_instance >= one_week_ago(t)
    IN  SelectSeq(encounters, InWeek)

\* redcap_record[f"{instrument}_complete"]
CompleteField(instrument, redcap_record) ==
    CASE instrument = "test_order_survey" ->
            redcap_record.test_order_survey_complete
      [] instrument = "kiosk_registration_4c7f" ->
            redcap_record.kiosk_registration_4c7f_complete
      [] instrument = "eligibility_screening" ->
            redcap_record.eligibility_screening_complete
      [] instrument = "consent_form" ->
            redcap_record.consent_form_complete
      [] instrument = "enrollment_questionnaire" ->
            redcap_record.enrollment_questionnaire_complete

\* a plausible slip: Unverified counted as complete, `int(code) >= 1`
is_complete_unverified(instrument, redcap_record) ==
    CompleteField(instrument, redcap_record) \in {"1", COMPLETE}

is_complete(instrument, redcap_record) ==
    CompleteField(instrument, redcap_record) = COMPLETE

\* a plausible slip: the first matching event instead of the maximum
_max_instance_first(redcap_record) ==
    redcap_record[1].redcap_repeat_instance

\* a plausible slip: the last event of the list instead of the maximum
_max_instance_last(redcap_record) ==
    redcap_record[Len(redcap_record)].redcap_repeat_instance

\* int(event['redcap_repeat_instance']): the number, or the exception raised
\* for an event without the key or with a text that is not a number
PyInt(event) ==
    IF event.redcap_repeat_instance = MISSING THEN KeyError
    ELSE IF event.redcap_repeat_instance \in {BLANK, NON_NUMERIC} THEN ValueError
    ELSE event.redcap_repeat_instance

\* max(int(event['redcap_repeat_instance']) for event in redcap_record),
\* folded over the list as Python's max does; the first event whose
\* conversion raises ends it
RECURSIVE MaxFrom(_, _, _)
MaxFrom(redcap_record, i, best) ==
    IF i > Len(redcap_record) \/ best \in Exceptions THEN best
    ELSE LET n == PyInt(redcap_record[i])
         IN  MaxFrom(redcap_record, i + 1,
                     IF n \in Exceptions \/ n > best THEN n ELSE best)

_max_instance(redcap_record) ==
    IF Len(redcap_record) = 0 THEN ValueError
    ELSE MaxFrom(redcap_record, 2, PyInt(redcap_record[1]))

\* the exception the `since` filter raises on its first event whose instance
\* does not convert, None if every instance converts
RECURSIVE RaisedFrom(_, _)
RaisedFrom(redcap_record, i) ==
    IF i > Len(redcap_record) THEN None
    ELSE IF PyInt(redcap_record[i]) \in Exceptions THEN PyInt(redcap_record[i])
    ELSE RaisedFrom(redcap_record, i + 1)

max_instance_testing_triggered(redcap_record) ==
    LET IsYes(encounter) == encounter.testing_trigger = "Yes"
        events_testing_trigger_yes == SelectSeq(redcap_record, IsYes)
    IN  IF Len(events_testing_trigger_yes) = 0 THEN None
        ELSE _max_instance(events_testing_trigger_yes)

\* a plausible slip: the `since` filter left out
max_instance_unfiltered(instrument, redcap_record, since, complete) ==
    LET Matches(encounter) ==
            /\ CompleteField(instrument, encounter) # ""
            /\ is_complete(instrument, encounter) = complete
        events_instrument_complete == SelectSeq(redcap_record, Matches)
    IN  IF Len(events_instrument_complete) = 0 THEN None
        ELSE _max_instance(events_instrument_complete)

\* a plausible slip: no marker at all without a `since`
max_instance_requires_since(instrument, redcap_record, since, complete) ==
    LET Matches(encounter) ==
            /\ CompleteField(instrument, encounter) # ""
            /\ is_complete(instrument, encounter) = complete
            /\ encounter.redcap_repeat_instance >= since
        events_instrument_complete == SelectSeq(redcap_record, Matches)
    IN  IF since = None \/ Len(events_instrument_complete) = 0 THEN None
        ELSE _max_instance(events_instrument_complete)

\* a plausible slip: the `!= ''` test left out, so that a blank status counts
\* as not complete
max_instance_counts_blank(instrument, redcap_record, since, complete) ==
    LET Matches(encounter) == is_complete(instrument, encounter) = complete
        Since(encounter) == encounter.redcap_repeat_instance >= since
        matching == SelectSeq(redcap_record, Matches)
        events_instrument_complete ==
            IF since # None THEN SelectSeq(matching, Since) ELSE matching
    IN  IF Len(events_instrument_complete) = 0 THEN None
        ELSE _max_instance(events_instrument_complete)

\* required_field keeps its default '' in the check-in, so its conjunct holds
max_instance(instrument, redcap_record, since, complete) ==
    LET Matches(encounter) ==
            /\ CompleteField(instrument, encounter) # ""
            /\ is_complete(instrument, encounter) = complete
        Since(encounter) == PyInt(encounter) >= since
        matching == SelectSeq(redcap_record, Matches)
        raised == IF since # None THEN RaisedFrom(matching, 1) ELSE None
        events_instrument_complete ==
            IF since # None THEN SelectSeq(matching, Since) ELSE matching
    IN  IF raised # None THEN raised
        ELSE IF Len(events_instrument_complete) = 0 THEN None
        ELSE _max_instance(events_instrument_complete)

\* the extraction ended by exception: no marker is assigned
Aborted(exception) ==
    [target |-> exception, complete_tos |-> exception,
     complete_kr |-> exception, incomplete_kr |-> exception]

\* the four markers, extracted as the check-in does: four calls in a row, the
\* first that raises ends the extraction
ExtractInstances(redcap_record) ==
    LET target == max_instance_testing_triggered(redcap_record)
        complete_tos == max_instance("test_order_survey", redcap_record, target, TRUE)
        complete_kr == max_instance("kiosk_registration_4c7f", redcap_record, target, TRUE)
        incomplete_kr == max_instance("kiosk_registration_4c7f", redcap_record, target, FALSE)
    IN  IF target \in Exceptions THEN Aborted(target)
        ELSE IF complete_tos \in Exceptions THEN Aborted(complete_tos)
        ELSE IF complete_kr \in Exceptions THEN Aborted(complete_kr)
        ELSE IF incomplete_kr \in Exceptions THEN Aborted(incomplete_kr)
        ELSE [target |-> target, complete_tos |-> complete_tos,
              complete_kr |-> complete_kr, incomplete_kr |-> incomplete_kr]

\* plausible slips of need_to_create_new_td_for_today: the complete-KR rule
\* forgotten; the no-target rule forgotten; the same-day TOS guard forgotten
need_to_create_new_td_no_kr_rule(inst, t) ==
    PyNot(inst.target)

need_to_create_new_td_no_target_rule(inst, t) ==
    inst.complete_tos # t /\ inst.complete_kr # None

need_to_create_new_td_no_tos_guard(inst, t) ==
    PyNot(inst.target) \/ inst.complete_kr # None

need_to_create_new_td_for_today(inst, t) ==
    IF PyNot(inst.target) THEN TRUE
    ELSE IF inst.complete_tos # t /\ inst.complete_kr # None THEN TRUE
    ELSE FALSE

\* a plausible slip: `return kr_exists` for `return not kr_exists`
need_to_create_new_kr_inverted(inst, t) ==
    IF need_to_create_new_td_for_today(inst, t) THEN FALSE
    ELSE LET kr_exists == inst.complete_kr # None \/ inst.incomplete_kr # None
         IN  IF inst.complete_tos # t THEN kr_exists ELSE FALSE

\* a plausible slip: the "just to be safe" test of
\* need_to_create_new_td_for_today left out
need_to_create_new_kr_unguarded(inst, t) ==
    LET kr_exists == inst.complete_kr # None \/ inst.incomplete_kr # None
    IN  IF inst.complete_tos # t THEN ~kr_exists ELSE FALSE

need_to_create_new_kr_instance(inst, t) ==
    IF need_to_create_new_td_for_today(inst, t) THEN FALSE
    ELSE LET complete_tos_instance == inst.complete_tos
             kr_exists == inst.complete_kr # None \/ inst.incomplete_kr # None
         IN  IF complete_tos_instance # t THEN ~kr_exists ELSE FALSE

\* the branch kiosk_registration_link takes and the instance it resolves
Resolve(inst, t) ==
    IF need_to_create_new_td_for_today(inst, t)
    THEN [action |-> "CreateDetermination", instance |-> t]
    ELSE IF need_to_create_new_kr_instance(inst, t)
    THEN [action |-> "CreateOrTarget", instance |-> inst.target]
    ELSE IF inst.incomplete_kr # None
    THEN [action |-> "ResumeIncomplete", instance |-> inst.incomplete_kr]
    ELSE [action |-> "LogicError", instance |-> None]

generate_redcap_link(redcap_record, instance, pid) ==
    [kind |-> "Link", pid |-> pid, id |-> redcap_record.record_id,
     instance |-> instance]

\* the encounter instance i of the record as REDCap holds it: all fields blank
\* while the instance has no data
EventAt(st, i) ==
    IF \E e \in st : e.redcap_repeat_instance = i
    THEN CHOOSE e \in st : e.redcap_repeat_instance = i
    ELSE [redcap_repeat_instance |-> i, testing_trigger |-> "",
          test_order_survey_complete |-> "",
          kiosk_registration_4c7f_complete |-> ""]

\* st with the encounter instance e saved
Save(st, e) ==
    {o \in st : o.redcap_repeat_instance # e.redcap_repeat_instance} \cup {e}

\* a plausible slip: days since the study start without the `1 +`
create_new_testing_determination_day_before(st, t) ==
    Save(st, [EventAt(st, t - 1) EXCEPT !.testing_trigger = "Yes"])

\* a plausible slip: redcap_repeat_instance 'new', REDCap appends an instance
\* after the last one
create_new_testing_determination_appends(st, t) ==
    LET last == IF st = {} THEN 0
                ELSE CHOOSE m \in {e.redcap_repeat_instance : e \in st} :
                        \A e \in st : e.redcap_repeat_instance <= m
    IN  Save(st, [EventAt(st, last + 1) EXCEPT !.testing_trigger = "Yes"])

\* the encounter arm after REDCap imports the posted record: instance
\* get_todays_repeat_instance() with testing_trigger = YES, which REDCap
\* exports under its label; overwriteBehavior = normal leaves the fields
\* that are not posted as they are
create_new_testing_determination(st, t) ==
    Save(st, [EventAt(st, t) EXCEPT !.testing_trigger = "Yes"])

\* ------------------------------------------------------------------------
\* Participant lookup: fetch_participant, register_participant
\* ------------------------------------------------------------------------
\* user_info["netid"] of the people who sign in
NetIds == {"a", "b"}
\* the workers that serve requests
Requests == {1, 2}

\* Python's None for a record
NoParticipant == [record_id |-> None]

\* the record REDCap holds after the import of register_participant: the
\* user_info under an auto-numbered record ID, no instrument saved yet
Registered(record_id, netid) ==
    [record_id |-> record_id, netid |-> netid,
     eligibility_screening_complete |-> "",
     consent_form_complete |-> "",
     enrollment_questionnaire_complete |-> ""]

\* the surveys of the enrollment event, in the order of REDCap's survey queue
EnrollmentInstruments ==
    <<"eligibility_screening", "consent_form", "enrollment_questionnaire">>

\* redcap_record with the status of an enrollment instrument set
WithStatus(redcap_record, instrument, status) ==
    CASE instrument = "eligibility_screening" ->
            [redcap_record EXCEPT !.eligibility_screening_complete = status]
      [] instrument = "consent_form" ->
            [redcap_record EXCEPT !.consent_form_complete = status]
      [] instrument = "enrollment_questionnaire" ->
            [redcap_record EXCEPT !.enrollment_questionnaire_complete = status]

\* a plausible slip: the enrollment questionnaire not asked for
redcap_registration_complete_two_surveys(redcap_record) ==
    IF redcap_record = NoParticipant THEN FALSE
    ELSE /\ is_complete("eligibility_screening", redcap_record)
         /\ is_complete("consent_form", redcap_record)

redcap_registration_complete(redcap_record) ==
    IF redcap_record = NoParticipant THEN FALSE
    ELSE /\ is_complete("eligibility_screening", redcap_record)
         /\ is_complete("consent_form", redcap_record)
         /\ is_complete("enrollment_questionnaire", redcap_record)

\* the records REDCap exports for filterLogic [netid] = "<netid>"
Matching(recs, netid) == {redcap_record \in recs : redcap_record.netid = netid}

\* what a call of fetch_participant does
Returns(record, c, calls) ==
    [record |-> record, cache |-> c, calls |-> calls, raised |-> FALSE]
\* the assertion on the number of records fails
AssertionError(c, calls) ==
    [record |-> NoParticipant, cache |-> c, calls |-> calls, raised |-> TRUE]
\* requests.post raises (timeout, no connection), raise_for_status raises on
\* the status, or the answer is not JSON
RequestException(c, calls) ==
    [record |-> NoParticipant, cache |-> c, calls |-> calls, raised |-> TRUE]

\* a plausible slip: the cache not read, every call exports from REDCap
fetch_participant_always_live(netid, c, recs) ==
    LET records_found == Matching(recs, netid)
        calls == <<"fetch_participant">>
    IN  IF Cardinality(records_found) = 0 THEN Returns(NoParticipant, c, calls)
        ELSE IF Cardinality(records_found) # 1 THEN AssertionError(c, calls)
        ELSE LET record == CHOOSE redcap_record \in records_found : TRUE
             IN  IF redcap_registration_complete(record)
                 THEN Returns(record, [c EXCEPT ![netid] = record], calls)
                 ELSE Returns(record, c, calls)

\* a plausible slip: a cached record that REDCap no longer exports is dropped
\* from the cache
fetch_participant_evicts(netid, c, recs) ==
    LET record == c[netid]
        gone == [c EXCEPT ![netid] = NoParticipant]
    IN  IF record # NoParticipant /\ record \in recs THEN Returns(record, c, <<>>)
        ELSE fetch_participant_always_live(netid, gone, recs)

\* a plausible slip: the first of several records taken, no assertion
fetch_participant_takes_first(netid, c, recs) ==
    LET record == c[netid]
    IN  IF record # NoParticipant THEN Returns(record, c, <<>>)
        ELSE LET records_found == Matching(recs, netid)
                 calls == <<"fetch_participant">>
             IN  IF Cardinality(records_found) = 0
                 THEN Returns(NoParticipant, c, calls)
                 ELSE LET first == CHOOSE redcap_record \in records_found :
                                     \A other \in records_found :
                                         redcap_record.record_id <= other.record_id
                      IN  IF redcap_registration_complete(first)
                          THEN Returns(first, [c EXCEPT ![netid] = first], calls)
                          ELSE Returns(first, c, calls)

\* a plausible slip: a filterLogic that matches no record
fetch_participant_no_match(netid, c, recs) ==
    LET record == c[netid]
    IN  IF record # NoParticipant THEN Returns(record, c, <<>>)
        ELSE Returns(NoParticipant, c, <<"fetch_participant">>)

\* fetch_participant(user_info) with the cache c and the records recs of the
\* project: the record returned, the cache afterwards, the requests sent to
\* REDCap
fetch_participant(netid, c, recs) ==
    LET record == c[netid]
    IN  IF record # NoParticipant THEN Returns(record, c, <<>>)
        ELSE LET records_found == Matching(recs, netid)
                 calls == <<"fetch_participant">>
             IN  IF Cardinality(records_found) = 0
                 THEN Returns(NoParticipant, c, calls)
                 ELSE IF Cardinality(records_found) # 1
                 THEN AssertionError(c, calls)
                 ELSE LET fetched == CHOOSE redcap_record \in records_found : TRUE
                      IN  IF redcap_registration_complete(fetched)
                          THEN Returns(fetched, [c EXCEPT ![netid] = fetched], calls)
                          ELSE Returns(fetched, c, calls)

\* record IDs in use
RecordIds(recs) == {redcap_record.record_id : redcap_record \in recs}

\* forceAutoNumber: the next record ID of the project
NextRecordId(recs) ==
    IF recs = {} THEN 1
    ELSE 1 + CHOOSE m \in RecordIds(recs) : \A n \in RecordIds(recs) : n <= m

\* the records of the project after register_participant(user_info)
register_participant(netid, recs) ==
    recs \cup {Registered(NextRecordId(recs), netid)}

\* main up to the record in hand, run alone and with REDCap answering:
\* fetch_participant, then register_participant when there is no record. The
\* record ID in hand, the cache and the records of the project afterwards.
fetch_or_register(netid, c, recs) ==
    LET call == fetch_participant(netid, c, recs)
    IN  IF call.raised
        THEN [record_id |-> None, cache |-> call.cache, records |-> recs,
              raised |-> TRUE]
        ELSE IF call.record = NoParticipant
        THEN [record_id |-> NextRecordId(recs), cache |-> call.cache,
              records |-> register_participant(netid, recs), raised |-> FALSE]
        ELSE [record_id |-> call.record.record_id, cache |-> call.cache,
              records |-> recs, raised |-> FALSE]

\* ------------------------------------------------------------------------
\* Requests to REDCap: requests.post, post_and_validate_redcap_request
\* ------------------------------------------------------------------------
\* max_retry_count of post_and_validate_redcap_request when not passed
max_retry_count_default == 10

\* the functions that post to REDCap
Functions ==
    {"fetch_participant", "register_participant", "generate_survey_link",
     "fetch_deleted_records", "fetch_encounter_events_past_week",
     "create_new_testing_determination"}

\* the functions that import a record
Writes == {"register_participant", "create_new_testing_determination"}

\* a plausible slip: every function posts through
\* post_and_validate_redcap_request
validates_all(function) == TRUE

\* the function posts through post_and_validate_redcap_request, the others
\* call requests.post themselves
validates(function) ==
    function \in {"fetch_deleted_records", "post_and_validate_redcap_request"}

\* data['content'] of the request of a function
Data(function) ==
    [function |-> function,
     content |-> CASE function = "generate_survey_link" -> "surveyLink"
                   [] function = "fetch_deleted_records" -> "log"
                   [] OTHER -> "record"]

\* the Content-Type the function asserts
Expected(function) ==
    IF function = "generate_survey_link" THEN "text/html" ELSE "application/json"

\* an answer of REDCap with its status code; marked is the page with
\* 'multiple browser tabs of the same REDCap page. If that is not the case'
Response(function, status_code, marked) ==
    [status_code |-> status_code, marked |-> marked,
     content_type |-> IF marked \/ status_code # 200 THEN "text/html"
                      ELSE Expected(function),
     exception |-> ""]

\* requests.post raises instead of answering
Raise(exception) ==
    [status_code |-> None, marked |-> FALSE, content_type |-> "",
     exception |-> exception]

\* what a post can come to
Answers(function) ==
    {Response(function, status_code, marked) :
        status_code \in {200, 500}, marked \in BOOLEAN}
    \cup {Raise("Timeout"), Raise("ConnectionError")}

\* the 200 that is the page asking to try again
false_success(response) == response.status_code = 200 /\ response.marked

\* a plausible slip: the retries counted as attempts
loop_continues_below(retry_count, max_retry_count) ==
    retry_count < max_retry_count

\* `while retry_count <= max_retry_count`
loop_continues(retry_count, max_retry_count) ==
    retry_count <= max_retry_count

\* nothing is being asked of REDCap
NoCall == [pc |-> "idle", function |-> "", max_retry_count |-> None,
           retry_count |-> 0, posted |-> <<>>, responses |-> <<>>,
           error |-> ""]

\* ------------------------------------------------------------------------
\* State machine
\* ------------------------------------------------------------------------
NoInstances == [target |-> None, complete_tos |-> None, complete_kr |-> None,
                incomplete_kr |-> None]
Idle == [action |-> "None", instance |-> None]
NoLink == [kind |-> "None"]
Raised == [kind |-> "Exception"]
NoPrevious == [action |-> "None", created |-> FALSE, kind |-> "None"]
\* a worker that serves no request
\* no survey link generated
NoSurveyLink == [record_id |-> None, instrument |-> "", instance |-> None]
IdleRequest == [pc |-> "idle", netid |-> "", record |-> NoParticipant,
                calls |-> <<>>, error |-> "", survey_link |-> NoSurveyLink]

\* no participant has signed in yet
NoParticipants ==
    /\ records = {}
    /\ cache = [netid \in NetIds |-> NoParticipant]
    /\ requests = [r \in Requests |-> IdleRequest]

Init ==
    /\ today = 1
    /\ store = {}
    /\ project_id \in {PROJECT_ID, TESTING_PROJECT_ID}
    /\ recent_encounters = <<>>
    /\ instances = NoInstances
    /\ resolution = Idle
    /\ created = FALSE
    /\ updated = None
    /\ link = NoLink
    /\ previous = NoPrevious
    /\ api_call = NoCall
    /\ NoParticipants

Forget ==
    /\ recent_encounters' = <<>>
    /\ instances' = NoInstances
    /\ resolution' = Idle
    /\ created' = FALSE
    /\ updated' = None
    /\ link' = NoLink
    /\ previous' = NoPrevious

\* a day passes
NextDay ==
    /\ today < MaxDay
    /\ today' = today + 1
    /\ Forget
    /\ UNCHANGED <<store, project_id>>
    /\ UNCHANGED <<participant_vars, transport_vars>>

\* number of fields of the encounter arm that hold a value
Filled(st) ==
    Cardinality({e \in st : e.testing_trigger # ""})
    + Cardinality({e \in st : e.test_order_survey_complete # ""})
    + Cardinality({e \in st : e.kiosk_registration_4c7f_complete # ""})

\* outside the check-in, an instrument of an encounter instance up to today is
\* saved in REDCap: a Kiosk Registration or a Test Order Survey sets its
\* <instrument>_complete, a Testing Determination sets [testing_trigger]
DataEntry ==
    \E i \in 1..today :
        LET old == EventAt(store, i)
        IN  /\ \/ \E v \in StatusValues \ {""} :
                    store' = Save(store, [old EXCEPT !.kiosk_registration_4c7f_complete = v])
               \/ \E v \in StatusValues \ {""} :
                    store' = Save(store, [old EXCEPT !.test_order_survey_complete = v])
               \/ \E v \in TriggerValues \ {""} :
                    store' = Save(store, [old EXCEPT !.testing_trigger = v])
            /\ store' # store
            /\ Filled(store') <= Filled(store) \/ Filled(store) < MaxEntries
            /\ Forget
            /\ UNCHANGED <<today, project_id>>
            /\ UNCHANGED <<participant_vars, transport_vars>>

\* a plausible slip: the testing project not told apart
posts_determination_always(res, pid) ==
    res.action = "CreateDetermination"

\* kiosk_registration_link calls create_new_testing_determination: a new
\* Testing Determination is needed and this is not the testing project
posts_determination(res, pid) ==
    res.action = "CreateDetermination" /\ pid # TESTING_PROJECT_ID

\* a plausible slip: any update accepted
updated_some(ids) == ids >= 1

\* assert len(response.json()) == 1
updated_one(ids) == ids = 1

\* one kiosk check-in of the record: fetch the past week, extract the
\* markers, kiosk_registration_link; REDCap answers an import with the IDs
\* of the records it updated
CheckIn ==
    \E ids \in 0..2 :
        LET encounters == fetch_encounter_events_past_week(store, today)
            inst == ExtractInstances(encounters)
            res == Resolve(inst, today)
            posts == posts_determination(res, project_id)
        IN  /\ posts \/ ids = 1
            /\ recent_encounters' = encounters
            /\ instances' = inst
            /\ resolution' = res
            /\ created' = posts
            /\ updated' = IF posts THEN ids ELSE None
            /\ store' = IF posts /\ ids >= 1
                        THEN create_new_testing_determination(store, today) ELSE store
            /\ link' = IF res.action = "LogicError" \/ (posts /\ ~updated_one(ids))
                       THEN Raised
                       ELSE generate_redcap_link(REDCAP_RECORD, res.instance, project_id)
            /\ previous' = [action |-> resolution.action, created |-> created,
                            kind |-> link.kind]
            /\ UNCHANGED <<today, project_id>>
            /\ UNCHANGED <<participant_vars, transport_vars>>

Next == NextDay \/ DataEntry \/ CheckIn

Spec == Init /\ [][Next]_vars

\* ------------------------------------------------------------------------
\* Marker extraction on a window with a malformed event
\* ------------------------------------------------------------------------
Aborts == [action |-> "Raised", instance |-> None]

\* the markers of the window of the record in which one event has no usable
\* instance, and the branch kiosk_registration_link takes on them; nothing
\* is posted
ExtractMalformed ==
    \E i \in 1..today : \E bad \in Malformed :
        LET encounters == fetch_encounter_events_past_week(store, today)
            window == [encounters EXCEPT ![i].redcap_repeat_instance = bad]
            inst == ExtractInstances(window)
        IN  /\ i \in DOMAIN encounters
            /\ recent_encounters' = window
            /\ instances' = inst
            /\ resolution' = IF inst.target \in Exceptions THEN Aborts
                              ELSE Resolve(inst, today)
            /\ created' = FALSE
            /\ updated' = None
            /\ link' = NoLink
            /\ previous' = NoPrevious
            /\ UNCHANGED <<today, store, project_id>>
            /\ UNCHANGED <<participant_vars, transport_vars>>

NextMalformed == NextDay \/ DataEntry \/ ExtractMalformed

SpecMalformed == Init /\ [][NextMalformed]_vars

\* ------------------------------------------------------------------------
\* The window of the past week, from the second week of the study on
\* ------------------------------------------------------------------------
Fetched == [action |-> "Fetched", instance |-> None]

\* the encounter instance i after a Testing Determination that triggered
\* testing
Triggered(i) == [EventAt({}, i) EXCEPT !.testing_trigger = "Yes"]

InitWindow ==
    /\ today \in (WEEK + 1)..(WEEK + MaxDay)
    /\ store \in {st \in SUBSET {Triggered(i) : i \in 1..today} :
                      Cardinality(st) <= MaxEntries}
    /\ project_id = PROJECT_ID
    /\ recent_encounters = <<>>
    /\ instances = NoInstances
    /\ resolution = Idle
    /\ created = FALSE
    /\ updated = None
    /\ link = NoLink
    /\ previous = NoPrevious
    /\ api_call = NoCall
    /\ NoParticipants

\* fetch_encounter_events_past_week(redcap_record)
FetchPastWeek ==
    /\ resolution = Idle
    /\ recent_encounters' = fetch_encounter_events_past_week(store, today)
    /\ resolution' = Fetched
    /\ UNCHANGED <<today, store, project_id, instances, created, updated, link,
                   previous>>
    /\ UNCHANGED <<participant_vars, transport_vars>>

NextWindow == FetchPastWeek

SpecWindow == InitWindow /\ [][NextWindow]_vars

\* ------------------------------------------------------------------------
\* Sign-in of participants: the request handler up to the record
\* ------------------------------------------------------------------------
InitParticipants ==
    /\ today \in {1, 2}
    /\ store = {}
    /\ project_id = PROJECT_ID
    /\ recent_encounters = <<>>
    /\ instances = NoInstances
    /\ resolution = Idle
    /\ created = FALSE
    /\ updated = None
    /\ link = NoLink
    /\ previous = NoPrevious
    /\ api_call = NoCall
    /\ NoParticipants

\* the other workers are at a point of main where REDCap or the cache is used
\* next. After its record is in hand a worker uses neither again, so its
\* remaining steps commute with every step of the others: they are taken
\* first.
OthersWait(r) ==
    \A other \in Requests \ {r} : requests[other].pc \in {"idle", "register"}

\* main: a request of netid arrives at worker r, fetch_participant; REDCap
\* answers the export or the request fails
MainFetch(r) ==
    \E netid \in NetIds : \E answered \in BOOLEAN :
        LET call == IF answered
                    THEN fetch_participant(netid, cache, records)
                    ELSE RequestException(cache, <<"fetch_participant">>)
        IN  /\ requests[r].pc = "idle"
            /\ OthersWait(r)
            /\ answered \/ cache[netid] = NoParticipant
            /\ cache' = call.cache
            /\ requests' = [requests EXCEPT ![r] =
                    [pc |-> IF call.raised THEN "error"
                            ELSE IF call.record = NoParticipant THEN "register"
                            ELSE "found",
                     netid |-> netid, record |-> call.record,
                     calls |-> call.calls,
                     error |-> IF ~call.raised THEN ""
                               ELSE IF answered THEN "AssertionError"
                               ELSE "RequestException",
                     survey_link |-> NoSurveyLink]]
            /\ UNCHANGED records
            /\ UNCHANGED <<checkin_vars, transport_vars>>

\* main: no record was found, register_participant; the import is answered,
\* fails before REDCap saves the record, or is saved without an answer that
\* reaches the worker (timeout)
MainRegister(r) ==
    \E outcome \in {"registered", "failed", "lost"} :
        LET imported == outcome # "failed"
            answered == outcome = "registered"
        IN  /\ requests[r].pc = "register"
            /\ OthersWait(r)
            /\ imported => /\ Cardinality(records) < MaxRecords
                           /\ NextRecordId(records) <= MaxRecords
            /\ records' = IF imported
                          THEN register_participant(requests[r].netid, records)
                          ELSE records
            /\ requests' = [requests EXCEPT ![r] =
                    [pc |-> IF answered THEN "registered" ELSE "error",
                     netid |-> requests[r].netid,
                     record |-> IF answered
                                THEN [record_id |-> NextRecordId(records)]
                                ELSE NoParticipant,
                     calls |-> Append(requests[r].calls, "register_participant"),
                     error |-> IF answered THEN "" ELSE "RequestException",
                     survey_link |-> NoSurveyLink]]
            /\ UNCHANGED cache
            /\ UNCHANGED <<checkin_vars, transport_vars>>

\* main: the three is_complete tests on the record in hand; the record made
\* from a new record ID has no instrument field
enrolled(redcap_record) ==
    IF DOMAIN redcap_record = {"record_id"} THEN FALSE
    ELSE /\ is_complete("eligibility_screening", redcap_record)
         /\ is_complete("consent_form", redcap_record)
         /\ is_complete("enrollment_questionnaire", redcap_record)

\* what REDCap answers to generate_survey_link(record_id, event, instrument,
\* instance): the link of that survey
generate_survey_link(record_id, instrument, instance) ==
    [record_id |-> record_id, instrument |-> instrument, instance |-> instance]

\* a plausible slip: generate_survey_link outside the try
main_answers_uncaught(page, failed) ==
    IF page THEN "page" ELSE "redirect"

\* what main answers after the record: the page of thanks, ERROR_MESSAGE
\* when the instance is not valid or generate_survey_link raised, the
\* redirect to the survey otherwise
main_answers(page, failed) ==
    IF page THEN "page" ELSE IF failed THEN "error" ELSE "redirect"

\* main: the survey to point the participant to, generate_survey_link; from
\* here on main uses nothing of the record but what the link holds
MainLink(r) ==
    \E answered \in BOOLEAN :
        LET redcap_record == requests[r].record
            repeat_instance == today
            page == enrolled(redcap_record) /\ repeat_instance = 1
            invalid == enrolled(redcap_record) /\ repeat_instance <= 0
            calls == ~page /\ ~invalid
            survey_link ==
                IF enrolled(redcap_record)
                THEN generate_survey_link(redcap_record.record_id,
                                          "daily_attestation", repeat_instance)
                ELSE generate_survey_link(redcap_record.record_id,
                                          "eligibility_screening", None)
        IN  /\ requests[r].pc \in {"found", "registered"}
            /\ answered \/ calls
            /\ requests' = [requests EXCEPT ![r] =
                    [pc |-> main_answers(page, invalid \/ ~answered),
                     netid |-> requests[r].netid,
                     record |-> NoParticipant,
                     calls |-> IF calls
                               THEN Append(requests[r].calls, "generate_survey_link")
                               ELSE requests[r].calls,
                     error |-> IF invalid THEN "repeat_instance"
                               ELSE IF calls /\ ~answered THEN "RequestException"
                               ELSE "",
                     survey_link |-> IF calls /\ answered THEN survey_link
                                     ELSE NoSurveyLink]]
            /\ UNCHANGED <<records, cache>>
            /\ UNCHANGED <<checkin_vars, transport_vars>>

\* main returns the redirect, the page or ERROR_MESSAGE: the worker is free
MainReturn(r) ==
    /\ requests[r].pc \in {"redirect", "page", "error"}
    /\ requests' = [requests EXCEPT ![r] = IdleRequest]
    /\ UNCHANGED <<records, cache>>
    /\ UNCHANGED <<checkin_vars, transport_vars>>

\* no worker is past the record of its request: the rest of main reads
\* nothing of the records, so what happens in REDCap meanwhile is the same as
\* what happens right after the return
NoResponsePending ==
    \A r \in Requests : requests[r].pc \in {"idle", "register"}

\* a participant submits a survey of the enrollment event: REDCap's survey
\* queue offers a survey once the ones before it are complete, and a complete
\* survey stays complete
SurveySubmitted ==
    \E redcap_record \in records : \E k \in 1..3 : \E status \in {"0", "1", "2"} :
        LET instrument == EnrollmentInstruments[k]
            saved == WithStatus(redcap_record, instrument, status)
        IN  /\ \A j \in 1..(k - 1) : is_complete(EnrollmentInstruments[j], redcap_record)
            /\ ~is_complete(instrument, redcap_record)
            /\ saved # redcap_record
            /\ records' = (records \ {redcap_record}) \cup {saved}
            /\ UNCHANGED <<cache, requests>>
            /\ UNCHANGED <<checkin_vars, transport_vars>>

SurveySaved == NoResponsePending /\ SurveySubmitted

\* the study staff delete a record in REDCap
RecordRemoved ==
    \E redcap_record \in records :
        /\ records' = records \ {redcap_record}
        /\ UNCHANGED <<cache, requests>>
        /\ UNCHANGED <<checkin_vars, transport_vars>>

RecordDeleted == NoResponsePending /\ RecordRemoved

NextParticipants ==
    \/ \E r \in Requests :
          MainFetch(r) \/ MainRegister(r) \/ MainLink(r) \/ MainReturn(r)
    \/ SurveySaved
    \/ RecordDeleted

SpecParticipants == InitParticipants /\ [][NextParticipants]_vars

\* ------------------------------------------------------------------------
\* One call to REDCap at a time, post by post
\* ------------------------------------------------------------------------
InitCalls ==
    /\ today = 1
    /\ store = {}
    /\ project_id = PROJECT_ID
    /\ recent_encounters = <<>>
    /\ instances = NoInstances
    /\ resolution = Idle
    /\ created = FALSE
    /\ updated = None
    /\ link = NoLink
    /\ previous = NoPrevious
    /\ api_call = NoCall
    /\ NoParticipants

\* one of the functions is called and comes to its post
Invoke ==
    \E function \in Functions :
        /\ api_call.pc = "idle"
        /\ api_call' = [NoCall EXCEPT
                        !.pc = IF validates(function) THEN "while" ELSE "post",
                        !.function = function,
                        !.max_retry_count = IF validates(function)
                                            THEN max_retry_count_default
                                            ELSE None]
        /\ UNCHANGED <<checkin_vars, participant_vars>>

\* post_and_validate_redcap_request is called with a max_retry_count
InvokeValidated ==
    \E max_retry_count \in 0..MaxRetryCount :
        /\ api_call.pc = "idle"
        /\ api_call' = [NoCall EXCEPT
                        !.pc = "while",
                        !.function = "post_and_validate_redcap_request",
                        !.max_retry_count = max_retry_count]
        /\ UNCHANGED <<checkin_vars, participant_vars>>

\* what the post of the data of the function comes to
Posted(answer) ==
    [api_call EXCEPT !.posted = Append(@, Data(api_call.function)),
                 !.responses = Append(@, answer),
                 !.error = answer.exception]

\* one turn of the loop of post_and_validate_redcap_request
WhilePost ==
    \E answer \in Answers(api_call.function) :
        /\ api_call.pc = "while"
        /\ loop_continues(api_call.retry_count, api_call.max_retry_count)
        /\ api_call' = IF answer.exception # ""
                   THEN [Posted(answer) EXCEPT !.pc = "raised"]
                   ELSE IF false_success(answer)
                   THEN [Posted(answer) EXCEPT !.retry_count = @ + 1]
                   ELSE [Posted(answer) EXCEPT !.pc = "raise_for_status"]
        /\ UNCHANGED <<checkin_vars, participant_vars>>

\* the loop of post_and_validate_redcap_request ends on its condition
WhileExit ==
    /\ api_call.pc = "while"
    /\ ~loop_continues(api_call.retry_count, api_call.max_retry_count)
    /\ api_call' = [api_call EXCEPT !.pc = "raise_for_status"]
    /\ UNCHANGED <<checkin_vars, participant_vars>>

\* requests.post in the function itself
Post ==
    \E answer \in Answers(api_call.function) :
        /\ api_call.pc = "post"
        /\ api_call' = IF answer.exception # ""
                   THEN [Posted(answer) EXCEPT !.pc = "raised"]
                   ELSE [Posted(answer) EXCEPT !.pc = "raise_for_status"]
        /\ UNCHANGED <<checkin_vars, participant_vars>>

\* response.raise_for_status(); post_and_validate_redcap_request then
\* returns the response
RaiseForStatus ==
    LET response == api_call.responses[Len(api_call.responses)]
    IN  /\ api_call.pc = "raise_for_status"
        /\ api_call' = IF api_call.responses = <<>>
                   THEN [api_call EXCEPT !.pc = "raised",
                                         !.error = "UnboundLocalError"]
                   ELSE IF response.status_code >= 400
                   THEN [api_call EXCEPT !.pc = "raised", !.error = "HTTPError"]
                   ELSE IF api_call.function = "post_and_validate_redcap_request"
                   THEN [api_call EXCEPT !.pc = "returned"]
                   ELSE [api_call EXCEPT !.pc = "assert"]
        /\ UNCHANGED <<checkin_vars, participant_vars>>

\* assert '<type>' in response.headers.get('Content-Type')
AssertContentType ==
    LET response == api_call.responses[Len(api_call.responses)]
    IN  /\ api_call.pc = "assert"
        /\ api_call' = IF response.content_type = Expected(api_call.function)
                   THEN [api_call EXCEPT !.pc = "returned"]
                   ELSE [api_call EXCEPT !.pc = "raised", !.error = "AssertionError"]
        /\ UNCHANGED <<checkin_vars, participant_vars>>

\* the api_call is over
Finish ==
    /\ api_call.pc \in {"returned", "raised"}
    /\ api_call' = NoCall
    /\ UNCHANGED <<checkin_vars, participant_vars>>

NextCalls ==
    \/ Invoke
    \/ InvokeValidated
    \/ WhilePost
    \/ WhileExit
    \/ Post
    \/ RaiseForStatus
    \/ AssertContentType
    \/ Finish

SpecCalls == InitCalls /\ [][NextCalls]_vars

\* ------------------------------------------------------------------------
\* Concurrent lookups: fetch_participant step by step, the cache read, the
\* export and the cache write of one call interleaved with those of another
\* ------------------------------------------------------------------------
\* a worker that runs no fetch_participant
IdleFetch == [pc |-> "idle", netid |-> "", record |-> NoParticipant,
              wrote |-> FALSE]

\* the records the project may hold when the lookups start: two participants
\* and a duplicate of the first, each as registered
Enrolling ==
    {Registered(1, "a"), Registered(2, "b"), Registered(3, "a")}

InitRace ==
    /\ today = 1
    /\ store = {}
    /\ project_id = PROJECT_ID
    /\ recent_encounters = <<>>
    /\ instances = NoInstances
    /\ resolution = Idle
    /\ created = FALSE
    /\ updated = None
    /\ link = NoLink
    /\ previous = NoPrevious
    /\ api_call = NoCall
    /\ records \in {recs \in SUBSET Enrolling : Cardinality(recs) <= MaxRecords}
    /\ cache = [netid \in NetIds |-> NoParticipant]
    /\ requests = [r \in Requests |-> IdleFetch]

\* record = LazyObjects.get_cache().get(netid)
FetchCacheGet(r) ==
    \E netid \in NetIds :
        /\ requests[r].pc = "idle"
        /\ requests' = [requests EXCEPT ![r] =
                [pc |-> IF cache[netid] # NoParticipant THEN "returned" ELSE "export",
                 netid |-> netid, record |-> cache[netid], wrote |-> FALSE]]
        /\ UNCHANGED <<records, cache>>
        /\ UNCHANGED <<checkin_vars, transport_vars>>

\* `if not record:` the export, the assertions and the test of
\* redcap_registration_complete, all on what REDCap holds at this moment
FetchExport(r) ==
    LET netid == requests[r].netid
        missed == [other \in NetIds |-> NoParticipant]
        call == fetch_participant(netid, missed, records)
    IN  /\ requests[r].pc = "export"
        /\ requests' = [requests EXCEPT ![r] =
                [pc |-> IF call.raised THEN "raised"
                        ELSE IF call.cache[netid] # NoParticipant THEN "set"
                        ELSE "returned",
                 netid |-> netid, record |-> call.record, wrote |-> FALSE]]
        /\ UNCHANGED <<records, cache>>
        /\ UNCHANGED <<checkin_vars, transport_vars>>

\* LazyObjects.get_cache()[netid] = record
FetchCacheSet(r) ==
    /\ requests[r].pc = "set"
    /\ cache' = [cache EXCEPT ![requests[r].netid] = requests[r].record]
    /\ requests' = [requests EXCEPT ![r] = [@ EXCEPT !.pc = "returned",
                                                      !.wrote = TRUE]]
    /\ UNCHANGED records
    /\ UNCHANGED <<checkin_vars, transport_vars>>

\* every call has returned or raised: the workers take the next calls
FetchesDone ==
    /\ \A r \in Requests : requests[r].pc \in {"idle", "returned", "raised"}
    /\ \E r \in Requests : requests[r].pc # "idle"
    /\ requests' = [r \in Requests |-> IdleFetch]
    /\ UNCHANGED <<records, cache>>
    /\ UNCHANGED <<checkin_vars, transport_vars>>

NextRace ==
    \/ \E r \in Requests : FetchCacheGet(r) \/ FetchExport(r) \/ FetchCacheSet(r)
    \/ FetchesDone
    \/ SurveySubmitted
    \/ RecordRemoved

SpecRace == InitRace /\ [][NextRace]_vars

\* ------------------------------------------------------------------------
\* Check-ins over the weeks: the events of the first days leave the window
\* ------------------------------------------------------------------------
\* the last day followed: every event of the first days has left the window
LastDay == MaxDay + WEEK + 1

\* the encounter arms with instances first..t, each once
\* with at most MaxEntries fields filled in; an instance with no field filled
\* in is not held. The trigger "No" and the status Unverified are left to the
\* check-ins of the first days: the extraction reads them as it reads the
\* blank trigger and the status Incomplete.
StoresFrom(first, t) ==
    LET Fields == [testing_trigger : {"Yes", ""},
                   test_order_survey_complete : {"", "0", COMPLETE},
                   kiosk_registration_4c7f_complete : {"", "0", COMPLETE}]
        Blank == [testing_trigger |-> "", test_order_survey_complete |-> "",
                  kiosk_registration_4c7f_complete |-> ""]
        Held(f) ==
            {[redcap_repeat_instance |-> i,
              testing_trigger |-> f[i].testing_trigger,
              test_order_survey_complete |-> f[i].test_order_survey_complete,
              kiosk_registration_4c7f_complete |->
                  f[i].kiosk_registration_4c7f_complete] :
             i \in {j \in first..t : f[j] # Blank}}
    IN  {st \in {Held(f) : f \in [first..t -> Fields]} : Filled(st) <= MaxEntries}

\* the encounter arms REDCap may hold on day t: its instances start at 1
Stores(t) == StoresFrom(1, t)

InitWeeks ==
    /\ today \in 1..MaxDay
    /\ store \in Stores(today)
    /\ project_id = PROJECT_ID
    /\ recent_encounters = <<>>
    /\ instances = NoInstances
    /\ resolution = Idle
    /\ created = FALSE
    /\ updated = None
    /\ link = NoLink
    /\ previous = NoPrevious
    /\ api_call = NoCall
    /\ NoParticipants

\* a day passes, in the first week or after it
DayPasses ==
    /\ today < LastDay
    /\ today' = today + 1
    /\ Forget
    /\ UNCHANGED <<store, project_id>>
    /\ UNCHANGED <<participant_vars, transport_vars>>

NextWeeks == DayPasses \/ CheckIn

SpecWeeks == InitWeeks /\ [][NextWeeks]_vars

\* ------------------------------------------------------------------------
\* Concurrent check-ins of one record: the fetch of the window and
\* kiosk_registration_link of one interleaved with those of another
\* ------------------------------------------------------------------------
\* a worker that serves no check-in
IdleKiosk == [pc |-> "idle", recent_encounters |-> <<>>,
              instances |-> NoInstances, resolution |-> Idle,
              created |-> FALSE, updated |-> None, link |-> NoLink]

InitKiosk ==
    /\ today \in 1..MaxDay
    /\ store \in Stores(today)
    /\ project_id = PROJECT_ID
    /\ recent_encounters = <<>>
    /\ instances = NoInstances
    /\ resolution = Idle
    /\ created = FALSE
    /\ updated = None
    /\ link = NoLink
    /\ previous = NoPrevious
    /\ api_call = NoCall
    /\ records = {}
    /\ cache = [netid \in NetIds |-> NoParticipant]
    /\ requests = [r \in Requests |-> IdleKiosk]

\* fetch_encounter_events_past_week and the extraction of the markers, on
\* what REDCap holds at this moment
KioskFetch(r) ==
    LET encounters == fetch_encounter_events_past_week(store, today)
    IN  /\ requests[r].pc = "idle"
        /\ requests' = [requests EXCEPT ![r] =
                [IdleKiosk EXCEPT !.pc = "fetched",
                                  !.recent_encounters = encounters,
                                  !.instances = ExtractInstances(encounters)]]
        /\ UNCHANGED <<records, cache>>
        /\ UNCHANGED <<checkin_vars, transport_vars>>

\* kiosk_registration_link on the markers in hand: the import, if any, is
\* saved by REDCap at this moment and answered with the IDs of the records
\* it updated
KioskLink(r) ==
    \E ids \in 0..2 :
        LET res == Resolve(requests[r].instances, today)
            posts == posts_determination(res, project_id)
        IN  /\ requests[r].pc = "fetched"
            /\ posts \/ ids = 1
            /\ store' = IF posts /\ ids >= 1
                        THEN create_new_testing_determination(store, today)
                        ELSE store
            /\ requests' = [requests EXCEPT ![r] =
                    [requests[r] EXCEPT
                        !.pc = "returned",
                        !.resolution = res,
                        !.created = posts,
                        !.updated = IF posts THEN ids ELSE None,
                        !.link = IF res.action = "LogicError"
                                    \/ (posts /\ ~updated_one(ids))
                                 THEN Raised
                                 ELSE generate_redcap_link(REDCAP_RECORD,
                                                           res.instance,
                                                           project_id)]]
            /\ UNCHANGED <<today, project_id, recent_encounters, instances,
                           resolution, created, updated, link, previous>>
            /\ UNCHANGED <<records, cache>>
            /\ UNCHANGED transport_vars

\* every check-in has returned: the workers take the next ones
KioskDone ==
    /\ \A r \in Requests : requests[r].pc \in {"idle", "returned"}
    /\ \E r \in Requests : requests[r].pc # "idle"
    /\ requests' = [r \in Requests |-> IdleKiosk]
    /\ UNCHANGED <<records, cache>>
    /\ UNCHANGED <<checkin_vars, transport_vars>>

NextKiosk ==
    \/ \E r \in Requests : KioskFetch(r) \/ KioskLink(r)
    \/ KioskDone

SpecKiosk == InitKiosk /\ [][NextKiosk]_vars

\* ------------------------------------------------------------------------
\* The decision on any four markers, as the doctests call it
\* ------------------------------------------------------------------------
\* what a marker can be: None, or an instance number from 0 on
Markers == {None} \cup (0..MaxDay)

Decided == [action |-> "Decided", instance |-> None]

InitMarkers ==
    /\ today \in 1..MaxDay
    /\ store = {}
    /\ project_id = PROJECT_ID
    /\ recent_encounters = <<>>
    /\ instances \in [target : Markers, complete_tos : Markers,
                      complete_kr : Markers, incomplete_kr : Markers]
    /\ resolution = Idle
    /\ created = FALSE
    /\ updated = None
    /\ link = NoLink
    /\ previous = NoPrevious
    /\ api_call = NoCall
    /\ NoParticipants

\* need_to_create_new_td_for_today(instances) and
\* need_to_create_new_kr_instance(instances) are called on the markers: what
\* each returned is kept in previous
Decide ==
    /\ resolution = Idle
    /\ resolution' = Decided
    /\ previous' = [need_td |-> need_to_create_new_td_for_today(instances, today),
                    need_kr |-> need_to_create_new_kr_instance(instances, today)]
    /\ UNCHANGED <<today, store, project_id, recent_encounters, instances,
                   created, updated, link>>
    /\ UNCHANGED <<participant_vars, transport_vars>>

NextMarkers == Decide

SpecMarkers == InitMarkers /\ [][NextMarkers]_vars

\* ------------------------------------------------------------------------
\* The decision on windows with an instance 0, as the doctest of
\* _max_instance has it
\* ------------------------------------------------------------------------
InitZero ==
    /\ today \in 1..MaxDay
    /\ store = {}
    /\ project_id = PROJECT_ID
    /\ recent_encounters \in {ExportFrom(st, 0) : st \in StoresFrom(0, today)}
    /\ instances = NoInstances
    /\ resolution = Idle
    /\ created = FALSE
    /\ updated = None
    /\ link = NoLink
    /\ previous = NoPrevious
    /\ api_call = NoCall
    /\ NoParticipants

\* the markers of the window are extracted, and
\* need_to_create_new_td_for_today and need_to_create_new_kr_instance are
\* called on them
ExtractAndDecide ==
    LET inst == ExtractInstances(recent_encounters)
    IN  /\ resolution = Idle
        /\ instances' = inst
        /\ resolution' = Decided
        /\ previous' = [need_td |-> need_to_create_new_td_for_today(inst, today),
                        need_kr |-> need_to_create_new_kr_instance(inst, today)]
        /\ UNCHANGED <<today, store, project_id, recent_encounters, created,
                       updated, link>>
        /\ UNCHANGED <<participant_vars, transport_vars>>

NextZero == ExtractAndDecide

SpecZero == InitZero /\ [][NextZero]_vars

\* ------------------------------------------------------------------------
\* The identity of a request: ForwardedRemoteUser and the head of main
\* ------------------------------------------------------------------------
\* Python's None where the WSGI environ holds a string
NoneValue == "<None>"

\* ForwardedRemoteUser.header_name as the key of the WSGI environ
_header_environ_key == "HTTP_FORWARDED_REMOTE_USER"

trusted_remote_addrs == {"127.0.0.1"}

\* the keys of the WSGI environ that the middleware and main read, and the
\* values a request can carry under each
EnvironKeys == {"REMOTE_ADDR", _header_environ_key, "REMOTE_USER", "uid"}

EnvironValues(key) ==
    CASE key = "REMOTE_ADDR" -> {"127.0.0.1", "10.0.0.1"}
      [] key = _header_environ_key -> {"a", "b"}
      [] key = "REMOTE_USER" -> {"", "a", "b"}
      [] key = "uid" -> {"", "a", "b"}

\* the WSGI environs of the requests: each key present or not
Environs ==
    UNION {{environ \in [keys -> {"", "a", "b", "127.0.0.1", "10.0.0.1"}] :
                \A key \in keys : environ[key] \in EnvironValues(key)} :
           keys \in SUBSET EnvironKeys}

\* environ.get(key, default)
Get(environ, key, default) ==
    IF key \in DOMAIN environ THEN environ[key] ELSE default

\* environ after environ.pop(key, None)
Popped(environ, key) == [k \in DOMAIN environ \ {key} |-> environ[k]]

\* environ after environ[key] = value
Assigned(environ, key, value) ==
    [k \in DOMAIN environ \cup {key} |-> IF k = key THEN value ELSE environ[k]]

\* Python truthiness of an Optional[str]
Truthy(value) == value # NoneValue /\ value # ""

\* a plausible slip: every address trusted
trusted_always(environ) == TRUE

\* environ.get("REMOTE_ADDR") in self.trusted_remote_addrs
trusted(environ) ==
    Get(environ, "REMOTE_ADDR", NoneValue) \in trusted_remote_addrs

\* ForwardedRemoteUser.__call__: the environ the wrapped app is called with
forwarded_environ(environ) ==
    IF trusted(environ)
    THEN Assigned(Popped(environ, _header_environ_key), "REMOTE_USER",
                  Get(environ, _header_environ_key, NoneValue))
    ELSE environ

\* extract_user_info(environ): environ['uid'] raises KeyError without the key
extract_user_info(environ) ==
    IF "uid" \in DOMAIN environ
    THEN [raised |-> FALSE, netid |-> environ["uid"]]
    ELSE [raised |-> TRUE, netid |-> NoneValue]

\* what main answers besides the redirect and the page of thanks: the
\* message of main, and the 500 of Flask for an exception that leaves main
ERROR_MESSAGE == "ERROR_MESSAGE"
InternalServerError == "500 Internal Server Error"

\* main(), with REDCap answering every request sent to it: the answer, the
\* requests sent to REDCap, the cache and the records of the project
\* afterwards
main(environ, c, recs, t) ==
    LET remote_user == Get(environ, "REMOTE_USER", NoneValue)
        user_info == extract_user_info(environ)
        Answer(answer, calls, c2, recs2) ==
            [answer |-> answer, calls |-> calls, cache |-> c2, records |-> recs2]
    IN  IF user_info.raised THEN Answer(InternalServerError, <<>>, c, recs)
        ELSE IF ~(Truthy(remote_user) /\ Truthy(user_info.netid))
        THEN Answer(ERROR_MESSAGE, <<>>, c, recs)
        ELSE LET netid == user_info.netid
                 fetched == fetch_participant(netid, c, recs)
                 new == fetched.record = NoParticipant
                 redcap_record == IF new THEN [record_id |-> NextRecordId(recs)]
                                  ELSE fetched.record
                 recs2 == IF new THEN register_participant(netid, recs) ELSE recs
                 calls == IF new THEN Append(fetched.calls, "register_participant")
                          ELSE fetched.calls
                 page == enrolled(redcap_record) /\ t = 1
                 invalid == enrolled(redcap_record) /\ t <= 0
                 answer == main_answers(page, invalid)
             IN  IF fetched.raised
                 THEN Answer(ERROR_MESSAGE, fetched.calls, fetched.cache, recs)
                 ELSE IF answer = "error"
                 THEN Answer(ERROR_MESSAGE, calls, fetched.cache, recs2)
                 ELSE IF answer = "page"
                 THEN Answer("page", calls, fetched.cache, recs2)
                 ELSE Answer("redirect", Append(calls, "generate_survey_link"),
                             fetched.cache, recs2)

\* a worker that serves no request
IdleApp == [pc |-> "idle", received |-> <<>>, environ |-> <<>>,
            calls |-> <<>>, answer |-> ""]

InitIdentity ==
    /\ today \in {1, 2}
    /\ store = {}
    /\ project_id = PROJECT_ID
    /\ recent_encounters = <<>>
    /\ instances = NoInstances
    /\ resolution = Idle
    /\ created = FALSE
    /\ updated = None
    /\ link = NoLink
    /\ previous = NoPrevious
    /\ api_call = NoCall
    /\ records = {}
    /\ cache = [netid \in NetIds |-> NoParticipant]
    /\ requests = [r \in Requests |-> IdleApp]

\* each request is served from its arrival to its answer before the next
\* one arrives
OthersIdle(r) == \A other \in Requests \ {r} : requests[other].pc = "idle"

\* ForwardedRemoteUser.__call__(environ, start_response): the wrapped app is
\* called with the environ
Call(r) ==
    \E environ \in Environs :
        /\ requests[r].pc = "idle"
        /\ OthersIdle(r)
        /\ requests' = [requests EXCEPT ![r] =
                [IdleApp EXCEPT !.pc = "app", !.received = environ,
                                !.environ = forwarded_environ(environ)]]
        /\ UNCHANGED <<records, cache>>
        /\ UNCHANGED <<checkin_vars, transport_vars>>

\* the environs with nothing but what main reads
MainEnvirons ==
    {environ \in Environs : DOMAIN environ \subseteq {"REMOTE_USER", "uid"}}

\* a request with its environ comes to main
Main(r) ==
    \E environ \in MainEnvirons :
        LET served == main(environ, cache, records, today)
        IN  /\ requests[r].pc = "idle"
            /\ OthersIdle(r)
            /\ Cardinality(served.records) <= MaxRecords
            /\ \A redcap_record \in served.records :
                  redcap_record.record_id <= MaxRecords
            /\ requests' = [requests EXCEPT ![r] =
                    [IdleApp EXCEPT !.pc = "answered", !.received = environ,
                                    !.environ = environ,
                                    !.calls = served.calls,
                                    !.answer = served.answer]]
            /\ records' = served.records
            /\ cache' = served.cache
            /\ UNCHANGED <<checkin_vars, transport_vars>>

\* the answer is sent: the worker is free
Respond(r) ==
    /\ requests[r].pc \in {"app", "answered"}
    /\ requests' = [requests EXCEPT ![r] = IdleApp]
    /\ UNCHANGED <<records, cache>>
    /\ UNCHANGED <<checkin_vars, transport_vars>>

\* between two requests a survey is submitted or a record deleted
NoRequest == \A r \in Requests : requests[r].pc = "idle"

SurveySubmittedBetween == NoRequest /\ SurveySubmitted

RecordRemovedBetween == NoRequest /\ RecordRemoved

NextIdentity ==
    \/ \E r \in Requests : Main(r) \/ Respond(r)
    \/ SurveySubmittedBetween
    \/ RecordRemovedBetween

SpecIdentity == InitIdentity /\ [][NextIdentity]_vars

\* the middleware alone, in front of any app
NextForwarded == \E r \in Requests : Call(r) \/ Respond(r)

SpecForwarded == InitIdentity /\ [][NextForwarded]_vars

\* ------------------------------------------------------------------------
\* Properties of the check-in
\* ------------------------------------------------------------------------

\* a check-in has run and nothing changed since
Checked == resolution.action # "None"

\* instances of the fetched window whose [testing_trigger] is "Yes"
Triggering(redcap_record) ==
    {redcap_record[i].redcap_repeat_instance :
        i \in {j \in DOMAIN redcap_record : redcap_record[j].testing_trigger = "Yes"}}

\* the encounter instance of day t, if REDCap holds one
EventsAt(st, t) == {e \in st : e.redcap_repeat_instance = t}

\* the check-in before the last one took the create branch, posted the
\* Testing Determination and returned a link; the last one followed it on the
\* same day with nothing else changed
FollowsCreate ==
    /\ Checked
    /\ previous.action = "CreateDetermination"
    /\ previous.created
    /\ previous.kind = "Link"

\* C1: the markers of every well-formed window resolve to CreateDetermination,
\* CreateOrTarget, ResumeIncomplete or the same-day short-circuit; the
\* "Logic error when generating survey links" branch is never taken.
C1_NeverLogicError ==
    resolution.action # "LogicError"

\* C2: with a target and completeSecondary = today the check-in resolves no
\* instance: no link is returned, no Testing Determination is posted.
C2_SameDayResolvesNothing ==
    (Checked /\ instances.target # None /\ instances.complete_tos = today)
        => (link.kind # "Link" /\ ~created /\ resolution.instance = None)

\* C3: a window without a triggering event has target None and resolves to
\* CreateDetermination at today, whatever the other three markers are.
C3_NoTriggerCreatesToday ==
    (Checked /\ Triggering(recent_encounters) = {})
        => /\ instances.target = None
           /\ resolution = [action |-> "CreateDetermination", instance |-> today]

C3_Witness ==
    /\ Checked
    /\ Triggering(recent_encounters) = {}
    /\ instances.complete_tos = today
    /\ instances.incomplete_kr # None
    /\ resolution.action = "CreateDetermination"

\* C4: target set, completeSecondary # today and a complete tertiary instance
\* resolve to CreateDetermination at today, whatever incompleteTertiary is.
C4_CompleteTertiaryCreatesToday ==
    (Checked /\ instances.target # None /\ instances.complete_tos # today
             /\ instances.complete_kr # None)
        => resolution = [action |-> "CreateDetermination", instance |-> today]

C4_Witness ==
    /\ Checked
    /\ instances.target # None /\ instances.target # today
    /\ instances.complete_tos # today
    /\ instances.complete_kr # None /\ instances.complete_kr # today
    /\ instances.incomplete_kr # None
    /\ resolution = [action |-> "CreateDetermination", instance |-> today]

\* C5: target set, completeSecondary # today and no tertiary instance of any
\* completeness at or after target resolve to CreateOrTarget at target.
C5_NoTertiaryResolvesTarget ==
    (Checked /\ instances.target # None /\ instances.complete_tos # today
             /\ instances.complete_kr = None /\ instances.incomplete_kr = None)
        => resolution = [action |-> "CreateOrTarget", instance |-> instances.target]

C5_Witness ==
    /\ Checked
    /\ instances.target # None /\ instances.target # today
    /\ instances.complete_tos # None /\ instances.complete_tos # today
    /\ instances.complete_kr = None /\ instances.incomplete_kr = None
    /\ resolution = [action |-> "CreateOrTarget", instance |-> instances.target]

\* C6: target set, completeSecondary # today, no complete tertiary and an
\* incomplete tertiary instance resolve to ResumeIncomplete at that instance,
\* and ResumeIncomplete is chosen for no other markers.
C6_ResumeExactlyThen ==
    Checked =>
        LET row == /\ instances.target # None
                   /\ instances.complete_tos # today
                   /\ instances.complete_kr = None
                   /\ instances.incomplete_kr # None
        IN  /\ (resolution.action = "ResumeIncomplete") <=> row
            /\ row => resolution.instance = instances.incomplete_kr

\* C7 as stated: the Testing Determination is posted only when target is
\* None; with a triggering event in the window it is not posted.
C7_CreateOnlyWithoutTarget ==
    created => (instances.target = None /\ Triggering(recent_encounters) = {})

\* C7 as amended: the Testing Determination is posted only when the window
\* has no triggering event, or completeSecondary # today and a complete
\* tertiary instance exists at or after target; with a triggering event and
\* no such tertiary instance, or completeSecondary = today, it is not posted.
C7_CreateOnlyWhenNeeded ==
    created => \/ Triggering(recent_encounters) = {}
               \/ (instances.complete_tos # today /\ instances.complete_kr # None)

C7_Witness ==
    /\ created
    /\ Triggering(recent_encounters) # {}
    /\ instances.complete_kr # None

\* C8 as stated: a CreateDetermination check-in outside dry-run has the event
\* of today with testing_trigger "Yes" in REDCap when it returns its link, and
\* the check-in that follows it the same day sees target = today, posts
\* nothing and resolves to CreateOrTarget at today.
C8_FollowingCheckInTargets ==
    /\ (resolution.action = "CreateDetermination" /\ created /\ link.kind = "Link")
           => \E e \in EventsAt(store, today) : e.testing_trigger = "Yes"
    /\ FollowsCreate
           => /\ instances.target = today
              /\ ~created
              /\ resolution = [action |-> "CreateOrTarget", instance |-> today]

\* C8 as amended: the event of today is written as stated and the following
\* check-in sees target = today; it posts nothing and resolves to
\* CreateOrTarget at today exactly when the event of today has no Kiosk
\* Registration status and no complete Test Order Survey, and it posts a
\* Testing Determination again exactly when that event's Kiosk Registration
\* is complete and its Test Order Survey is not.
C8_FollowingCheckInSeesToday ==
    /\ (resolution.action = "CreateDetermination" /\ created /\ link.kind = "Link")
           => \E e \in EventsAt(store, today) : e.testing_trigger = "Yes"
    /\ FollowsCreate
           => /\ instances.target = today
              /\ \A e \in EventsAt(store, today) :
                    /\ (~created /\ resolution = [action |-> "CreateOrTarget",
                                                  instance |-> today])
                           <=> (e.kiosk_registration_4c7f_complete = ""
                                /\ e.test_order_survey_complete # COMPLETE)
                    /\ created
                           <=> (e.kiosk_registration_4c7f_complete = COMPLETE
                                /\ e.test_order_survey_complete # COMPLETE)

C8_Witness ==
    /\ FollowsCreate
    /\ ~created
    /\ resolution = [action |-> "CreateOrTarget", instance |-> today]
    /\ \E e \in EventsAt(store, today) : e.testing_trigger = "Yes"

\* C9: target is the largest instance among the triggering events of the
\* window, never an earlier one.
C9_TargetIsLatestTrigger ==
    Checked =>
        IF Triggering(recent_encounters) = {} THEN instances.target = None
        ELSE /\ instances.target \in Triggering(recent_encounters)
             /\ \A n \in Triggering(recent_encounters) : n <= instances.target

C9_Witness ==
    /\ Checked
    /\ Cardinality(Triggering(recent_encounters)) >= 2
    /\ \E n \in Triggering(recent_encounters) : n < instances.target

\* the markers and the resolution of the window of store st on day t
MarkersOf(st, t) == ExtractInstances(fetch_encounter_events_past_week(st, t))
ResolutionOf(st, t) == Resolve(MarkersOf(st, t), t)

\* the events of the window of st on day t as a set
WindowOf(st, t) ==
    LET w == fetch_encounter_events_past_week(st, t)
    IN  {w[i] : i \in DOMAIN w}

\* two stores whose windows have the same triggering events and the same
\* events from the target on
AgreeFromTarget(st1, st2, t) ==
    LET target == max_instance_testing_triggered(fetch_encounter_events_past_week(st1, t))
    IN  /\ target # None
        /\ {e \in WindowOf(st1, t) : e.testing_trigger = "Yes"}
             = {e \in WindowOf(st2, t) : e.testing_trigger = "Yes"}
        /\ {e \in WindowOf(st1, t) : e.redcap_repeat_instance >= target}
             = {e \in WindowOf(st2, t) : e.redcap_repeat_instance >= target}

MaxOrNone(S) ==
    IF S = {} THEN None ELSE CHOOSE m \in S : \A n \in S : n <= m

\* instances of the fetched window whose Test Order Survey status is in V
WithTOS(redcap_record, V) ==
    {redcap_record[i].redcap_repeat_instance :
        i \in {j \in DOMAIN redcap_record :
                  redcap_record[j].test_order_survey_complete \in V}}

\* instances of the fetched window whose Kiosk Registration status is in V
WithKR(redcap_record, V) ==
    {redcap_record[i].redcap_repeat_instance :
        i \in {j \in DOMAIN redcap_record :
                  redcap_record[j].kiosk_registration_4c7f_complete \in V}}

\* C11: with target None the three completeness queries have no lower bound:
\* each marker is the largest instance of the whole window with the matching
\* status, and the empty window gives four None markers.
C11_NoTargetNoLowerBound ==
    (Checked /\ instances.target = None)
        => /\ instances.complete_tos = MaxOrNone(WithTOS(recent_encounters, {"2"}))
           /\ instances.complete_kr = MaxOrNone(WithKR(recent_encounters, {"2"}))
           /\ instances.incomplete_kr = MaxOrNone(WithKR(recent_encounters, {"0", "1"}))
           /\ recent_encounters = <<>> => instances = NoInstances

C11_Witness ==
    /\ Checked
    /\ instances.target = None
    /\ instances.complete_tos # None
    /\ instances.complete_kr # None
    /\ instances.complete_kr # instances.complete_tos

\* C12: an event whose status for a form is blank gives neither the complete
\* nor the incomplete marker of that form, and a window whose Kiosk
\* Registration statuses are all blank has no tertiary marker: with a target
\* and no Test Order Survey of today it resolves to CreateOrTarget.
C12_BlankIsNeither ==
    Checked =>
        /\ \A n \in WithTOS(recent_encounters, {""}) : instances.complete_tos # n
        /\ \A n \in WithKR(recent_encounters, {""}) :
              instances.complete_kr # n /\ instances.incomplete_kr # n
        /\ WithKR(recent_encounters, {"0", "1", "2"}) = {}
              => /\ instances.complete_kr = None
                 /\ instances.incomplete_kr = None
                 /\ (instances.target # None /\ instances.complete_tos # today)
                       => resolution.action = "CreateOrTarget"

C12_Witness ==
    /\ Checked
    /\ instances.target # None
    /\ Len(recent_encounters) >= 2
    /\ WithKR(recent_encounters, {"0", "1", "2"}) = {}
    /\ \E n \in WithKR(recent_encounters, {""}) : n > instances.target
    /\ resolution.action = "CreateOrTarget"

\* the instances of S at or after target, all of S without a target
FromTarget(S, target) ==
    IF target = None THEN S ELSE {n \in S : n >= target}

\* C13: the incomplete Kiosk Registration query matches Incomplete ("0") and
\* Unverified ("1") and never Complete ("2"); the complete queries match
\* Complete only, so an Unverified form is never taken for complete.
C13_UnverifiedIsIncomplete ==
    Checked =>
        /\ instances.incomplete_kr =
              MaxOrNone(FromTarget(WithKR(recent_encounters, {"0", "1"}), instances.target))
        /\ instances.complete_kr =
              MaxOrNone(FromTarget(WithKR(recent_encounters, {"2"}), instances.target))
        /\ instances.complete_tos =
              MaxOrNone(FromTarget(WithTOS(recent_encounters, {"2"}), instances.target))

C13_Witness ==
    /\ Checked
    /\ instances.target # None
    /\ instances.incomplete_kr \in WithKR(recent_encounters, {"1"})
    /\ WithKR(recent_encounters, {"0"}) # {}
    /\ instances.complete_kr = None

\* the orders in which a window can list its events
Orderings(redcap_record) ==
    LET n == Len(redcap_record)
        orders == {f \in [1..n -> 1..n] : \A i, j \in 1..n : f[i] = f[j] => i = j}
    IN  {[i \in 1..n |-> redcap_record[f[i]]] : f \in orders}

\* C14: the markers do not depend on the order of the events: every
\* permutation of the window gives the same four markers.
C14_OrderIrrelevant ==
    Checked =>
        \A permuted \in Orderings(recent_encounters) :
            ExtractInstances(permuted) = instances

C14_Witness ==
    /\ Checked
    /\ Len(recent_encounters) >= 2
    /\ instances.target # None
    /\ instances.target # recent_encounters[Len(recent_encounters)].redcap_repeat_instance
    /\ instances.incomplete_kr # None

\* events of the window without a usable instance
MalformedEvents(redcap_record) ==
    {i \in DOMAIN redcap_record : redcap_record[i].redcap_repeat_instance \in Malformed}

\* C15: a window with an event that lacks an instance, or has an empty or
\* non-numeric one, makes the marker extraction raise whatever the trigger
\* and the statuses of that event are: no marker is assigned and no instance
\* is resolved.
C15_MalformedAlwaysRaises ==
    (Checked /\ MalformedEvents(recent_encounters) # {})
        => /\ instances.target \in Exceptions
           /\ resolution = Aborts

\* the events of a list as a set
EventsOf(redcap_record) == {redcap_record[i] : i \in DOMAIN redcap_record}

\* C16: fetch_encounter_events_past_week returns exactly the encounter events
\* of the record with instance >= today - 7, each once: the event at today - 7
\* is in the window, an event at today - 8 or before is not.
C16_WindowIsPastWeek ==
    resolution = Fetched =>
        LET past_week == {e \in store : e.redcap_repeat_instance >= today - 7}
        IN  /\ EventsOf(recent_encounters) = past_week
            /\ Len(recent_encounters) = Cardinality(past_week)

C16_Witness ==
    /\ resolution = Fetched
    /\ \E e \in EventsOf(recent_encounters) : e.redcap_repeat_instance = today - 7
    /\ \E e \in store : e.redcap_repeat_instance = today - 8
    /\ \A e \in EventsOf(recent_encounters) : e.redcap_repeat_instance # today - 8

\* ------------------------------------------------------------------------
\* Properties of the participant lookup
\* ------------------------------------------------------------------------

\* the three enrollment flags of a record are Complete
AllComplete(redcap_record) ==
    /\ redcap_record.eligibility_screening_complete = "2"
    /\ redcap_record.consent_form_complete = "2"
    /\ redcap_record.enrollment_questionnaire_complete = "2"

\* worker r takes a request in this step and runs fetch_participant
LookupStep(r) == requests[r].pc = "idle" /\ requests'[r].pc # "idle"

\* worker r runs register_participant in this step
RegisterStep(r) == requests[r].pc = "register" /\ requests'[r].pc # "register"

\* C17: every entry of the participant cache is a record of its NetID whose
\* eligibility, consent and enrollment questionnaire flags are all Complete,
\* and an entry is only ever stored when REDCap exported exactly that one
\* record for the NetID: never on zero or several matches.
C17_CacheHoldsCompleteOnly ==
    [][\A netid \in NetIds :
          cache'[netid] # NoParticipant
              => /\ cache'[netid].netid = netid
                 /\ AllComplete(cache'[netid])
                 /\ cache'[netid] # cache[netid]
                       => Matching(records, netid) = {cache'[netid]}]_vars

C17_Witness ==
    /\ \E netid \in NetIds : cache[netid] # NoParticipant
    /\ \E r \in Requests :
          /\ requests[r].pc = "found"
          /\ requests[r].calls # <<>>
          /\ requests[r].record.eligibility_screening_complete = "2"
          /\ requests[r].record.consent_form_complete = "2"
          /\ requests[r].record.enrollment_questionnaire_complete = "1"
          /\ cache[requests[r].netid] = NoParticipant

\* C18: fetch_participant for a NetID without a cache entry sends the export
\* request to REDCap; for a NetID with a cache entry it returns the cached
\* record and sends nothing.
C18_MissFetchesHitDoesNot ==
    [][\A r \in Requests :
          LookupStep(r) =>
              LET netid == requests'[r].netid
              IN  /\ cache[netid] = NoParticipant
                        => requests'[r].calls = <<"fetch_participant">>
                  /\ cache[netid] # NoParticipant
                        => /\ requests'[r].calls = <<>>
                           /\ requests'[r].pc = "found"
                           /\ requests'[r].record = cache[netid]]_vars

C18_Witness ==
    \E r1, r2 \in Requests :
        /\ requests[r1].pc = "found" /\ requests[r1].calls = <<>>
        /\ requests[r2].pc = "register"
        /\ requests[r2].calls = <<"fetch_participant">>
        /\ requests[r2].netid # requests[r1].netid

\* C19: once a record is cached for a NetID no step removes or replaces the
\* entry, whatever happens to the records in REDCap, and every later
\* fetch_participant for the NetID returns that record.
C19_CacheEntryStays ==
    [][\A netid \in NetIds :
          cache[netid] # NoParticipant
              => /\ cache'[netid] = cache[netid]
                 /\ \A r \in Requests :
                       (LookupStep(r) /\ requests'[r].netid = netid)
                           => requests'[r].record = cache[netid]]_vars

C19_Witness ==
    \E r \in Requests :
        /\ requests[r].pc = "found"
        /\ requests[r].calls = <<>>
        /\ requests[r].record = cache[requests[r].netid]
        /\ requests[r].record \notin records
        /\ Matching(records, requests[r].netid) # {}

\* REDCap answered the request worker r sent in this step
Answered(r) == requests'[r].error # "RequestException"

\* C20: a lookup that exports no record for the NetID goes on to register
\* exactly one new record under a new auto-numbered record ID; one that
\* exports exactly one record returns it and registers nothing; one that
\* exports several records fails on the assertion, returns none of them and
\* caches none of them.
C20_FetchOrRegister ==
    [][\A r \in Requests :
          /\ (LookupStep(r) /\ requests'[r].calls # <<>> /\ Answered(r))
                => LET found == Matching(records, requests'[r].netid)
                   IN  /\ records' = records
                       /\ found = {}
                             => requests'[r].pc = "register"
                       /\ Cardinality(found) = 1
                             => /\ requests'[r].pc = "found"
                                /\ requests'[r].record \in found
                       /\ Cardinality(found) > 1
                             => /\ requests'[r].pc = "error"
                                /\ requests'[r].record = NoParticipant
                                /\ cache' = cache
          /\ (RegisterStep(r) /\ Answered(r))
                => /\ requests'[r].pc = "registered"
                   /\ records \subseteq records'
                   /\ \E new \in records' :
                         /\ records' \ records = {new}
                         /\ new.record_id \notin RecordIds(records)
                         /\ new.netid = requests[r].netid
                         /\ requests'[r].record = [record_id |-> new.record_id]]_vars

C20_Witness ==
    \E r1, r2 \in Requests :
        /\ requests[r1].pc = "error"
        /\ requests[r1].error = "AssertionError"
        /\ Cardinality(Matching(records, requests[r1].netid)) > 1
        /\ requests[r2].pc = "register"
        /\ Matching(records, requests[r2].netid) = {}

\* ------------------------------------------------------------------------
\* Properties of sign-in: repeated and concurrent requests
\* ------------------------------------------------------------------------

\* two calls of main for the NetID, one after the other, nothing in between
Twice(netid) ==
    LET first == fetch_or_register(netid, cache, records)
    IN  [first |-> first,
         second |-> fetch_or_register(netid, first.cache, first.records)]

\* C21 as stated: two sequential fetch-or-register calls for a NetID return
\* the same record ID, and the project holds exactly one record of the NetID
\* afterwards.
C21_TwiceSameRecordOneStored ==
    \A netid \in NetIds :
        LET calls == Twice(netid)
        IN  ~calls.first.raised
                => /\ ~calls.second.raised
                   /\ calls.second.record_id = calls.first.record_id
                   /\ Cardinality(Matching(calls.second.records, netid)) = 1

\* C21 as amended: two sequential fetch-or-register calls for a NetID return
\* the same record ID and the second call registers nothing; the project
\* then holds exactly one record of the NetID unless the first call was
\* answered from the cache.
C21_TwiceSameRecordNothingRegistered ==
    \A netid \in NetIds :
        LET calls == Twice(netid)
        IN  ~calls.first.raised
                => /\ ~calls.second.raised
                   /\ calls.second.record_id = calls.first.record_id
                   /\ calls.second.records = calls.first.records
                   /\ calls.second.cache = calls.first.cache
                   /\ cache[netid] = NoParticipant
                         => Cardinality(Matching(calls.second.records, netid)) = 1

\* a request found, in REDCap, the record an earlier request registered
C21_Witness ==
    \E r \in Requests :
        /\ requests[r].pc = "found"
        /\ requests[r].calls = <<"fetch_participant">>
        /\ requests[r].record =
              Registered(requests[r].record.record_id, requests[r].netid)
        /\ Matching(records, requests[r].netid) = {requests[r].record}
        /\ Twice(requests[r].netid).second.record_id = requests[r].record.record_id

\* REDCap holds several records of the NetID
Duplicated(netid) == Cardinality(Matching(records, netid)) > 1

\* C22 as stated: once two interleaved check-ins have registered two records
\* of a NetID, every later lookup of the NetID fails on the assertion and
\* neither returns nor caches one of the duplicates.
C22_DuplicatesAlwaysFlagged ==
    [][\A r \in Requests :
          (LookupStep(r) /\ Answered(r) /\ Duplicated(requests'[r].netid))
              => /\ requests'[r].error = "AssertionError"
                 /\ requests'[r].record = NoParticipant
                 /\ cache' = cache]_vars

\* C22 as amended: a second record of a NetID is only ever registered by a
\* request that looked the NetID up before the first was registered; while
\* REDCap holds both, every later lookup that is not answered from the cache
\* fails on the assertion and neither returns nor caches one of them.
C22_DuplicatesFlaggedOnExport ==
    [][/\ \A netid \in NetIds :
            (/\ Matching(records, netid) # {}
             /\ \E new \in Matching(records', netid) :
                   new.record_id \notin RecordIds(records))
                => \E r \in Requests :
                      /\ RegisterStep(r)
                      /\ requests[r].netid = netid
                      /\ requests[r].calls = <<"fetch_participant">>
       /\ \A r \in Requests :
            (LookupStep(r) /\ Answered(r) /\ Duplicated(requests'[r].netid)
                /\ cache[requests'[r].netid] = NoParticipant)
                => /\ requests'[r].error = "AssertionError"
                   /\ requests'[r].record = NoParticipant
                   /\ cache' = cache]_vars

\* both records of a NetID are as registered, and a lookup failed on them
C22_Witness ==
    \E r \in Requests : \E first, second \in records :
        /\ first # second
        /\ Matching(records, requests[r].netid) = {first, second}
        /\ first = Registered(first.record_id, requests[r].netid)
        /\ second = Registered(second.record_id, requests[r].netid)
        /\ requests[r].error = "AssertionError"
        /\ requests[r].calls = <<"fetch_participant">>
        /\ cache[requests[r].netid] = NoParticipant

Retrying == api_call.max_retry_count # None

\* the last answer of the call in progress was the page asking to try again
LastIsFalseSuccess ==
    /\ api_call.responses # <<>>
    /\ false_success(api_call.responses[Len(api_call.responses)])

\* every post of the call sent the data of the function, and every answer
\* but the last was the page asking to try again
ResentOnFalseSuccessOnly ==
    /\ \A i \in DOMAIN api_call.posted :
          api_call.posted[i] = Data(api_call.function)
    /\ \A i \in DOMAIN api_call.responses :
          i < Len(api_call.responses) => false_success(api_call.responses[i])

\* C24 as stated: post_and_validate_redcap_request sends the same request
\* again only after a 200 with the marker phrase, stops at the first other
\* answer, and makes at most max_retry_count attempts in all.
C24_AtMostMaxRetryCountAttempts ==
    Retrying
        => /\ ResentOnFalseSuccessOnly
           /\ Len(api_call.posted) <= api_call.max_retry_count

\* C24 as amended: post_and_validate_redcap_request sends the same request
\* again only after a 200 with the marker phrase, stops at the first other
\* answer, and makes at most max_retry_count + 1 attempts in all, the first
\* and max_retry_count retries; it gives up on the marked page only when
\* all of them were made.
C24_AtMostMaxRetryCountRetries ==
    Retrying
        => /\ ResentOnFalseSuccessOnly
           /\ Len(api_call.posted) <= api_call.max_retry_count + 1
           /\ (LastIsFalseSuccess /\ api_call.pc # "while")
                 => Len(api_call.posted) = api_call.max_retry_count + 1

C24_Witness ==
    /\ api_call.function = "fetch_deleted_records"
    /\ api_call.pc = "raise_for_status"
    /\ Len(api_call.posted) = max_retry_count_default + 1
    /\ LastIsFalseSuccess

\* C25: post_and_validate_redcap_request never returns a 200 with the marker
\* phrase to its caller; when every attempt got that page it raises.
C25_NeverReturnsFalseSuccess ==
    (/\ Retrying
     /\ \/ api_call.pc = "returned"
           /\ api_call.function = "post_and_validate_redcap_request"
        \/ api_call.pc = "assert")
        => ~LastIsFalseSuccess

\* the retries a read-only call that fails in transport is entitled to
RetryBound ==
    IF Retrying THEN api_call.max_retry_count ELSE max_retry_count_default

\* C26: a read-only call raises a timeout or a connection failure only after
\* the request was sent again up to the retry bound.
C26_TimeoutsRetried ==
    (/\ api_call.pc = "raised"
     /\ api_call.error \in {"Timeout", "ConnectionError"}
     /\ api_call.function \notin Writes)
        => Len(api_call.posted) >= RetryBound

\* C27: register_participant and create_new_testing_determination post once:
\* whatever the answer, the import is not sent a second time.
C27_WritesPostOnce ==
    api_call.function \in Writes
        => /\ Len(api_call.posted) <= 1
           /\ api_call.pc \in {"raise_for_status", "assert", "returned", "raised"}
                 => Len(api_call.posted) = 1

C27_Witness ==
    /\ api_call.function \in Writes
    /\ api_call.pc = "raised"
    /\ api_call.error = "AssertionError"
    /\ LastIsFalseSuccess

\* ------------------------------------------------------------------------
\* Properties of the Testing Determination import
\* ------------------------------------------------------------------------

\* C28: when REDCap answers the import of the Testing Determination with any
\* number of updated records other than one, create_new_testing_determination
\* fails on its assertion and kiosk_registration_link returns no link.
C28_WrongUpdateCountRaises ==
    (created /\ updated # 1)
        => /\ link = Raised
           /\ resolution.action = "CreateDetermination"

C28_Witness ==
    /\ created
    /\ updated = 2
    /\ link = Raised
    /\ \E e \in store : e.redcap_repeat_instance = today /\ e.testing_trigger = "Yes"

\* C29: a check-in that resolves CreateDetermination resolves instance today;
\* in the testing project (id -1) it posts nothing, leaves the encounter arm
\* as it is and still returns the link of today, and in any other project it
\* posts the import.
C29_TestingProjectSkipsWrite ==
    [][resolution'.action = "CreateDetermination"
          => /\ resolution'.instance = today
             /\ project_id = TESTING_PROJECT_ID
                   => /\ ~created'
                      /\ updated' = None
                      /\ store' = store
                      /\ link' = generate_redcap_link(REDCAP_RECORD, today,
                                                      TESTING_PROJECT_ID)
             /\ project_id # TESTING_PROJECT_ID
                   => /\ created'
                      /\ updated' \in 0..2]_vars

C29_Witness ==
    /\ project_id = TESTING_PROJECT_ID
    /\ resolution = [action |-> "CreateDetermination", instance |-> today]
    /\ ~created
    /\ link.kind = "Link"
    /\ link.instance = today

\* ------------------------------------------------------------------------
\* Properties of the request handler
\* ------------------------------------------------------------------------

\* C30: in main a failure of fetch_participant, register_participant or
\* generate_survey_link ends the request with ERROR_MESSAGE: the failed call
\* is the last call of the request, no survey link is held and no redirect
\* is answered, and a redirect is only answered by a request without failure.
C30_FailureEndsRequest ==
    [][\A r \in Requests :
          /\ requests'[r].error # ""
                => /\ requests'[r].pc = "error"
                   /\ requests'[r].survey_link = NoSurveyLink
          /\ requests[r].error # ""
                => requests'[r] \in {requests[r], IdleRequest}
          /\ requests'[r].pc = "redirect"
                => /\ requests'[r].error = ""
                   /\ requests'[r].survey_link # NoSurveyLink
          /\ (requests[r].error = "" /\ requests'[r].error # "")
                => \/ requests'[r].error = "repeat_instance"
                   \/ Len(requests'[r].calls) = Len(requests[r].calls) + 1]_vars

C30_Witness ==
    \E r \in Requests :
        /\ requests[r].pc = "error"
        /\ requests[r].error = "RequestException"
        /\ requests[r].calls = <<"fetch_participant", "register_participant",
                                 "generate_survey_link">>
        /\ requests[r].survey_link = NoSurveyLink

\* ------------------------------------------------------------------------
\* Properties of the identity of a request
\* ------------------------------------------------------------------------

\* the request carries no authenticated user or no NetID
Unidentified(environ) ==
    \/ ~Truthy(Get(environ, "REMOTE_USER", NoneValue))
    \/ ~Truthy(Get(environ, "uid", NoneValue))

\* no request was sent to REDCap for an answered request without identity
NoCallWithoutIdentity ==
    \A r \in Requests :
        (requests[r].pc = "answered" /\ Unidentified(requests[r].environ))
            => requests[r].calls = <<>>

\* C31: a request without an authenticated user or without a NetID is
\* answered with ERROR_MESSAGE, and no request is sent to REDCap for it: no
\* fetch_participant, register_participant or generate_survey_link.
C31_RejectedBeforeAnyCall ==
    \A r \in Requests :
        (requests[r].pc = "answered" /\ Unidentified(requests[r].environ))
            => /\ requests[r].answer = ERROR_MESSAGE
               /\ requests[r].calls = <<>>

\* C40: ForwardedRemoteUser calls the wrapped app with the environ it
\* received, unchanged, unless REMOTE_ADDR is 127.0.0.1: the header of a
\* request from another address, or without an address, sets or alters no
\* REMOTE_USER. For 127.0.0.1 the header is removed from the environ and
\* REMOTE_USER is its value, None without the header; the other keys stay.
C40_HeaderTrustedFromLocalhostOnly ==
    \A r \in Requests :
        requests[r].pc = "app" =>
            LET received == requests[r].received
                environ == requests[r].environ
                local == /\ "REMOTE_ADDR" \in DOMAIN received
                         /\ received["REMOTE_ADDR"] = "127.0.0.1"
            IN  /\ ~local => environ = received
                /\ local =>
                      /\ _header_environ_key \notin DOMAIN environ
                      /\ "REMOTE_USER" \in DOMAIN environ
                      /\ environ["REMOTE_USER"] =
                            IF _header_environ_key \in DOMAIN received
                            THEN received[_header_environ_key] ELSE NoneValue
                      /\ \A key \in EnvironKeys \ {_header_environ_key, "REMOTE_USER"} :
                            /\ key \in DOMAIN environ <=> key \in DOMAIN received
                            /\ key \in DOMAIN received => environ[key] = received[key]

\* a request from another address with the header and another REMOTE_USER
C40_Witness ==
    \E r \in Requests :
        /\ requests[r].pc = "app"
        /\ "REMOTE_ADDR" \in DOMAIN requests[r].received
        /\ requests[r].received["REMOTE_ADDR"] = "10.0.0.1"
        /\ _header_environ_key \in DOMAIN requests[r].received
        /\ "REMOTE_USER" \in DOMAIN requests[r].received
        /\ requests[r].received["REMOTE_USER"]
              # requests[r].received[_header_environ_key]
        /\ requests[r].environ["REMOTE_USER"] = requests[r].received["REMOTE_USER"]
        /\ _header_environ_key \in DOMAIN requests[r].environ

\* a request from 127.0.0.1 without the header loses its REMOTE_USER
C40_WitnessLocal ==
    \E r \in Requests :
        /\ requests[r].pc = "app"
        /\ "REMOTE_USER" \in DOMAIN requests[r].received
        /\ requests[r].received["REMOTE_USER"] = "a"
        /\ requests[r].environ["REMOTE_USER"] = NoneValue

\* ------------------------------------------------------------------------
\* Properties of the decision on any four markers
\* ------------------------------------------------------------------------

\* C32: on every four markers need_to_create_new_td_for_today and
\* need_to_create_new_kr_instance do not both return True, and
\* need_to_create_new_kr_instance returns False when target is None.
C32_NeverBothTrue ==
    resolution = Decided
        => /\ ~(previous.need_td /\ previous.need_kr)
           /\ instances.target = None => ~previous.need_kr

\* no target, no Kiosk Registration and no Test Order Survey of today: the
\* markers on which only the test of need_to_create_new_td_for_today keeps
\* need_to_create_new_kr_instance from returning True
C32_Witness ==
    /\ resolution = Decided
    /\ instances.target = None
    /\ instances.complete_kr = None /\ instances.incomplete_kr = None
    /\ instances.complete_tos # today
    /\ previous.need_td
    /\ ~previous.need_kr

\* ------------------------------------------------------------------------
\* Properties of the check-in: what it writes and what it links to
\* ------------------------------------------------------------------------

\* the encounter instances other than i
EventsBut(st, i) == {e \in st : e.redcap_repeat_instance # i}

\* C33: a check-in that resolves CreateOrTarget or ResumeIncomplete, or ends
\* in the logic error, leaves the encounter arm and the participant cache as
\* they are; the encounter arm only changes in a check-in that resolves
\* CreateDetermination, and then only its instance of today changes, to
\* testing_trigger "Yes" with its other fields as they were.
C33_OnlyCreateWritesToday ==
    [][resolution'.action # "None"
          => /\ cache' = cache /\ records' = records
             /\ resolution'.action \in {"CreateOrTarget", "ResumeIncomplete",
                                        "LogicError"}
                   => store' = store
             /\ store' # store
                   => /\ resolution'.action = "CreateDetermination"
                      /\ created'
                      /\ EventsBut(store', today) = EventsBut(store, today)
                      /\ EventsAt(store', today) =
                            {[EventAt(store, today) EXCEPT !.testing_trigger = "Yes"]}]_vars

\* a check-in resumed an incomplete Kiosk Registration, posted nothing, and
\* the encounter arm is the window it fetched
C33_Witness ==
    /\ resolution.action = "ResumeIncomplete"
    /\ link.kind = "Link"
    /\ ~created
    /\ EventsOf(recent_encounters) = store
    /\ Cardinality(store) >= 2

\* C35: a link returned by kiosk_registration_link is to today, to target or
\* to the incomplete Kiosk Registration marker, it carries the instance the
\* check-in resolved and the ID of the record, and a ResumeIncomplete
\* instance is an instance >= target whose Kiosk Registration is Incomplete
\* or Unverified in the window, never blank or Complete.
C35_LinkToResolvedInstance ==
    link.kind = "Link" =>
        /\ link.instance = resolution.instance
        /\ link.id = REDCAP_RECORD.record_id
        /\ \/ resolution.action = "CreateDetermination" /\ link.instance = today
           \/ resolution.action = "CreateOrTarget"
                 /\ link.instance = instances.target
           \/ resolution.action = "ResumeIncomplete"
                 /\ link.instance = instances.incomplete_kr
        /\ link.instance >= 1
        /\ resolution.action = "ResumeIncomplete"
              => /\ instances.target # None
                 /\ link.instance >= instances.target
                 /\ link.instance \in WithKR(recent_encounters, {"0", "1"})
                 /\ link.instance \notin WithKR(recent_encounters, {"", "2"})

\* the link resumes an Unverified Kiosk Registration after the target
C35_Witness ==
    /\ link.kind = "Link"
    /\ resolution.action = "ResumeIncomplete"
    /\ link.instance > instances.target
    /\ link.instance \in WithKR(recent_encounters, {"1"})
    /\ instances.target \in WithKR(recent_encounters, {""})

\* the check-in of worker r resolved CreateDetermination and REDCap saved
\* its import
Wrote(r) ==
    /\ requests[r].pc = "returned"
    /\ requests[r].resolution.action = "CreateDetermination"
    /\ requests[r].created
    /\ requests[r].updated >= 1

\* C36: when two check-ins of the record on the same day both resolve
\* CreateDetermination and both imports are saved, in either order, both
\* resolve instance today and REDCap holds one event at instance today, with
\* testing_trigger "Yes": each import wrote (record, today) and nothing else,
\* so the encounter arm is what one of them alone would have left.
C36_BothWriteToday ==
    \A r1, r2 \in Requests :
        (r1 # r2 /\ Wrote(r1) /\ Wrote(r2))
            => /\ requests[r1].resolution.instance = today
               /\ requests[r2].resolution.instance = today
               /\ Cardinality(EventsAt(store, today)) = 1
               /\ \A e \in EventsAt(store, today) : e.testing_trigger = "Yes"
               /\ \A r \in {r1, r2} :
                     LET window == EventsOf(requests[r].recent_encounters)
                     IN  /\ EventsBut(store, today) = EventsBut(window, today)
                         /\ EventsAt(store, today) =
                               {[EventAt(window, today) EXCEPT
                                    !.testing_trigger = "Yes"]}

\* both check-ins fetched the same window without an event of today, before
\* either import, and both returned the link of today
C36_Witness ==
    \E r1, r2 \in Requests :
        /\ r1 # r2 /\ Wrote(r1) /\ Wrote(r2)
        /\ requests[r1].recent_encounters = requests[r2].recent_encounters
        /\ requests[r1].recent_encounters # <<>>
        /\ EventsAt(EventsOf(requests[r1].recent_encounters), today) = {}
        /\ requests[r1].link.kind = "Link" /\ requests[r1].link.instance = today
        /\ requests[r2].link.kind = "Link" /\ requests[r2].link.instance = today

\* ------------------------------------------------------------------------
\* Properties of the check-ins over the weeks
\* ------------------------------------------------------------------------

\* the three completeness markers that are present
PresentAfterTarget(inst) ==
    {inst.complete_tos, inst.complete_kr, inst.incomplete_kr} \ {None}

\* C34: of the markers extracted from a well-formed window, with a target
\* every completeness marker that is present is >= target; the complete and
\* the incomplete Kiosk Registration markers are never the same instance; and
\* every marker that is present is >= today - 7.
C34_MarkersAfterTargetInWeek ==
    Checked =>
        /\ instances.target # None
              => \A n \in PresentAfterTarget(instances) : n >= instances.target
        /\ instances.complete_kr # None
              => instances.complete_kr # instances.incomplete_kr
        /\ \A n \in PresentAfterTarget(instances) \cup ({instances.target} \ {None}) :
              n >= today - 7

\* the target is the event of a week ago, an older triggering event is held
\* and left out, and a Kiosk Registration was begun at or after the target
C34_Witness ==
    /\ Checked
    /\ instances.target = today - 7
    /\ instances.incomplete_kr # None
    /\ \E e \in store : /\ e.redcap_repeat_instance < today - 7
                        /\ e.testing_trigger = "Yes"

\* C37: when the window of a check-in holds one event, a triggering event at
\* instance t without Kiosk Registration or Test Order Survey, the day is one
\* of t..t+7 and the check-in resolves CreateOrTarget at t and posts nothing;
\* when that event is t+8 days old or older and the window holds nothing, the
\* check-in resolves CreateDetermination at today and posts it.
C37_TargetForAWeekThenCreate ==
    Checked =>
        \A t \in 1..today :
            /\ EventsOf(recent_encounters) = {Triggered(t)}
                  => /\ today <= t + 7
                     /\ resolution = [action |-> "CreateOrTarget", instance |-> t]
                     /\ ~created
                     /\ link = generate_redcap_link(REDCAP_RECORD, t, project_id)
                     /\ EventsAt(store, t) = {Triggered(t)}
                     /\ EventsAt(store, today) \subseteq {Triggered(t)}
            /\ (Triggered(t) \in store /\ t + 8 <= today /\ recent_encounters = <<>>)
                  => /\ resolution = [action |-> "CreateDetermination",
                                      instance |-> today]
                     /\ created

\* the check-in of day t+7 still resolves the target t
C37_Witness ==
    /\ Checked
    /\ \E t \in 1..today :
          /\ EventsOf(recent_encounters) = {Triggered(t)}
          /\ today = t + 7
          /\ store = {Triggered(t)}
    /\ resolution.action = "CreateOrTarget"

\* the check-in of day t+8 posts a Testing Determination
C37_WitnessCreate ==
    /\ Checked
    /\ \E t \in 1..today : today = t + 8 /\ EventsBut(store, today) = {Triggered(t)}
    /\ resolution.action = "CreateDetermination"
    /\ created

\* the window holds a triggering event at t and a complete Kiosk Registration
\* at k, at or after it and before today, and no Test Order Survey was
\* completed today
TriggeredAndRegistered(t, k) ==
    /\ Checked
    /\ t \in Triggering(recent_encounters)
    /\ k \in WithKR(recent_encounters, {"2"})
    /\ t <= k /\ k < today
    /\ today \notin WithTOS(recent_encounters, {"2"})

\* C38 as stated: with a triggering event and a complete Kiosk Registration
\* at or after it in the window, every check-in of a later day on which no
\* Test Order Survey is completed resolves CreateDetermination at today.
C38_LaterDayAlwaysCreates ==
    \A t, k \in 1..today :
        TriggeredAndRegistered(t, k)
            => resolution = [action |-> "CreateDetermination", instance |-> today]

\* C38 as amended: such a check-in never resolves the instance of that
\* triggering event or of that Kiosk Registration; it resolves
\* CreateDetermination at today exactly when the latest triggering event of
\* the window has a complete Kiosk Registration at or after it, and
\* otherwise, the window holding a triggering event after every complete
\* Kiosk Registration, such as the one an earlier check-in posted, it
\* resolves an instance at or after that later event.
C38_LaterDayCreatesUnlessTriggeredSince ==
    \A t, k \in 1..today :
        TriggeredAndRegistered(t, k)
            => LET latest == MaxOrNone(Triggering(recent_encounters))
                   registered ==
                       \E c \in WithKR(recent_encounters, {"2"}) : c >= latest
               IN  /\ resolution.instance \notin {t, k}
                   /\ resolution.action # "LogicError"
                   /\ registered
                         <=> resolution = [action |-> "CreateDetermination",
                                           instance |-> today]
                   /\ ~registered
                         => /\ latest > k
                            /\ resolution.instance >= latest

\* a check-in of the day after an earlier check-in posted a Testing
\* Determination: that one is the target
C38_Witness ==
    \E t, k \in 1..today :
        /\ TriggeredAndRegistered(t, k)
        /\ resolution.action = "CreateOrTarget"
        /\ resolution.instance > k
        /\ resolution.instance < today

\* ------------------------------------------------------------------------
\* Properties of the decision on windows with an instance 0
\* ------------------------------------------------------------------------

\* target is None exactly when the window holds no triggering event
TargetNoneIffNoTrigger ==
    resolution = Decided
        => (instances.target = None <=> Triggering(recent_encounters) = {})

\* C39: need_to_create_new_td_for_today takes its "no target" row exactly
\* when max_instance_testing_triggered returned None: on a window with a
\* triggering event, at whatever instance, instance 0 included, it returns
\* True only by its other row, a complete Kiosk Registration at or after the
\* target and no Test Order Survey completed today.
C39_NoTargetRowOnlyOnNone ==
    (resolution = Decided /\ Triggering(recent_encounters) # {})
        => /\ instances.target # None
           /\ previous.need_td
                 => (instances.complete_tos # today /\ instances.complete_kr # None)

====
